---- MODULE Spec2Model ----
(***************************************************************************)
(* Model of the powdr condensation stage and of the data structures it     *)
(* rests on: the symbol path algebra (ast/src/parsed/asm.rs), the array    *)
(* expressions (ast/src/parsed/mod.rs), the types and type schemes         *)
(* (ast/src/parsed/types.rs) and the condenser                             *)
(* (pil-analyzer/src/condenser.rs).                                        *)
(*                                                                         *)
(* Five specifications share the module:                                   *)
(*   PathSpec   two absolute paths are built with push/pop, then           *)
(*              common_prefix, relative_to, the conversion to a relative   *)
(*              path and join are applied to them;                         *)
(*   TextSpec   a SymbolPath is printed, or a string is typed, and the     *)
(*              string is parsed with from_str;                            *)
(*   TypeSpec   a type scheme is built, then inspected or simplified;      *)
(*   ArraySpec  an ArrayExpression is built with value / repeated_value /  *)
(*              concat, then solved or padded;                             *)
(*   Spec       one call of condense, step by step, on inputs drawn from   *)
(*              bounded pools.                                             *)
(* A panic of the Rust code is a failed result ([ok |-> FALSE]) for the    *)
(* pure functions and pc = "aborted" for condense.                         *)
(***************************************************************************)
EXTENDS Integers, Sequences, FiniteSets, TLC

VARIABLES
    \* ---- symbol paths
    path_pc,        \* "build" | "prefixed" | "relative" | "absolute" | "parts"
                    \* | "joined" | "joined_absolute" | "joined_parts"
    self_path,      \* AbsoluteSymbolPath.parts of the path (`self` of relative_to)
    base,           \* AbsoluteSymbolPath.parts of the base
    rel,            \* SymbolPath.parts returned by self.relative_to(base)
    joined,         \* result of base.join(rel): [ok, parts]
    prefix          \* AbsoluteSymbolPath.parts returned by self.common_prefix(base)

VARIABLES
    \* ---- array expressions
    arr_pc,         \* "build" | "solved" | "padded_zeroes" | "padded_last"
    array_expr,     \* the ArrayExpression tree
    solve_degree,   \* the `degree` argument of solve
    solved,         \* result of array_expr.solve(solve_degree): [ok, value]
    padded          \* Option<ArrayExpression> returned by pad_with_zeroes
                    \* (always Some) or pad_with_last

VARIABLES
    \* ---- condense
    pc,                     \* "start" | "identities" | "intermediates" | "done" | "aborted"
    input,                  \* the arguments of condense: degree, definitions,
                            \* public_declarations, identities, source_order
    condensed_identities,   \* Vec<Identity<AlgebraicExpression>>
    source_order,           \* the rewritten Vec<StatementIdentifier>
    intermediate_columns,   \* name -> (Symbol, Vec<AlgebraicExpression>)
    definitions,            \* the (mutable) definition table
    public_declarations,    \* the (mutable) public declarations
    analyzed,               \* the returned Analyzed, None before the return
    steps,                  \* the steps of the pass entered so far, in order
    failure                 \* the message of the panic that aborted the pass

VARIABLES
    \* ---- symbol paths as text
    text_pc,        \* "build" | "typing" | "dotted" | "displayed"
                    \* | "parsed_typed" | "parsed_dotted" | "parsed_displayed"
    symbol_path,    \* SymbolPath.parts of the path that is printed
    text,           \* the String handed to SymbolPath::from_str
    parsed          \* result of SymbolPath::from_str(text): [ok, parts]

pathVars == <<path_pc, self_path, base, rel, joined, prefix>>

condVars == <<pc, input, condensed_identities, source_order, intermediate_columns,
              definitions, public_declarations, analyzed, steps, failure>>

arrVars == <<arr_pc, array_expr, solve_degree, solved, padded>>

VARIABLES
    \* ---- types and type schemes
    type_pc,        \* "build" | "inspected" | "simplified" | "resimplified"
                    \* | "substituted" | "converted"
    type_scheme,    \* the TypeScheme { vars, ty } that is built
    type_vars,      \* type_scheme.ty.contained_type_vars(), collected
    concrete,       \* type_scheme.ty.is_concrete_type()
    simplified,     \* result of type_scheme.simplify_type_vars()
    resimplified,   \* result of simplify_type_vars on `simplified`
    occurrences,    \* type_scheme.ty.contained_type_vars_with_repetitions()
    subst,          \* the HashMap handed to substitute_type_vars
    substituted,    \* type_scheme.ty after substitute_type_vars(&subst)
    converted       \* result of Type::<u64>::from(type_scheme.ty)

textVars == <<text_pc, symbol_path, text, parsed>>

typeVars == <<type_pc, type_scheme, type_vars, concrete, simplified, resimplified,
              occurrences, subst, substituted, converted>>

vars == <<pathVars, arrVars, condVars, textVars, typeVars>>

\* ------------------------------------------------------------------ bounds

\* Longest absolute path that push builds.
MaxPathLen == 3

\* Most leaves (Value or RepeatedValue blocks) of an ArrayExpression tree.
MaxLeaves == 3

\* Largest degree handed to solve.
MaxDegree == 9

\* Most identities of the source handed to condense.
MaxIdentities == 2

\* Most parts of a SymbolPath that is printed.
MaxParts == 3

\* Longest String handed to from_str directly.
MaxTextLen == 5

\* Most nodes of a Type tree.
MaxTypeNodes == 4

\* Most bound type variables of a TypeScheme.
MaxTypeVars == 2

\* ------------------------------------------------------ symbol path algebra

\* The String of a path part and of a type variable is the sequence of its
\* characters; the run of the five characters `super` is one unit, every other
\* character stands for itself.
\* Path components. Components are non-empty strings (with_part asserts it);
\* "super" is an ordinary component name of an absolute path.
Names == {<<"a">>, <<"b">>, <<"super">>}

\* enum Part { Super, Named(String) }
Super == [kind |-> "Super", name |-> <<>>]

Named(n) == [kind |-> "Named", name |-> n]

\* A panicking call and a returned value.
Panic == [ok |-> FALSE, parts |-> <<>>]

Ok(parts) == [ok |-> TRUE, parts |-> parts]

\* A common_prefix that keeps every position at which the two paths agree
\* (filter_map instead of map_while).
RECURSIVE common_prefix_filter(_, _)
common_prefix_filter(p, other) ==
    IF p = <<>> \/ other = <<>> THEN <<>>
    ELSE IF Head(p) = Head(other)
         THEN <<Head(p)>> \o common_prefix_filter(Tail(p), Tail(other))
         ELSE common_prefix_filter(Tail(p), Tail(other))

\* AbsoluteSymbolPath::common_prefix: zip, map_while equal.
RECURSIVE common_prefix(_, _)
common_prefix(p, other) ==
    IF p = <<>> \/ other = <<>> THEN <<>>
    ELSE IF Head(p) = Head(other)
         THEN <<Head(p)>> \o common_prefix(Tail(p), Tail(other))
         ELSE <<>>

\* usize::saturating_sub
saturating_sub(a, b) == IF a >= b THEN a - b ELSE 0

\* A relative_to that climbs from the base up to the root: one `super` per
\* component of the base, the common ones included.
relative_to_from_root(p, b) ==
    LET common_prefix_len == Len(common_prefix(p, b))
    IN  [i \in 1..Len(b) |-> Super]
        \o [i \in 1..(Len(p) - common_prefix_len) |-> Named(p[common_prefix_len + i])]

\* A relative_to that emits one `super` per component of self (not of base)
\* above the common prefix.
relative_to_swapped(p, b) ==
    LET common_prefix_len == Len(common_prefix(p, b))
    IN  [i \in 1..saturating_sub(Len(p), common_prefix_len) |-> Super]
        \o [i \in 1..(Len(p) - common_prefix_len) |-> Named(p[common_prefix_len + i])]

\* AbsoluteSymbolPath::relative_to
relative_to(p, b) ==
    LET common_prefix_len == Len(common_prefix(p, b))
    IN  [i \in 1..saturating_sub(Len(b), common_prefix_len) |-> Super]
        \o [i \in 1..(Len(p) - common_prefix_len) |-> Named(p[common_prefix_len + i])]

\* A loop body of join whose `super` stays at the root instead of panicking.
join_part_saturating(acc, part) ==
    IF ~acc.ok THEN acc
    ELSE IF part.kind = "Super"
         THEN Ok(SubSeq(acc.parts, 1, saturating_sub(Len(acc.parts), 1)))
         ELSE IF part.name = <<>>
              THEN Ok(<<>>)
              ELSE Ok(Append(acc.parts, part.name))

\* One iteration of the loop of AbsoluteSymbolPath::join.
join_part(acc, part) ==
    IF ~acc.ok THEN acc
    ELSE IF part.kind = "Super"
         THEN IF acc.parts = <<>>
              THEN Panic                                  \* self.pop().unwrap()
              ELSE Ok(SubSeq(acc.parts, 1, Len(acc.parts) - 1))
         ELSE IF part.name = <<>>
              THEN Ok(<<>>)                               \* self.parts.clear()
              ELSE Ok(Append(acc.parts, part.name))

RECURSIVE join_from(_, _)
join_from(acc, parts) ==
    IF parts = <<>> THEN acc
    ELSE join_from(join_part(acc, Head(parts)), Tail(parts))

\* AbsoluteSymbolPath::join
join(p, other) == join_from(Ok(p), other)

\* impl From<AbsoluteSymbolPath> for SymbolPath: an empty name, then the parts.
SymbolPathFrom(p) == <<Named(<<>>)>> \o [i \in 1..Len(p) |-> Named(p[i])]

\* The parts a relative path is made of: `super`, the empty name and names.
RelativeParts == {Super, Named(<<>>)} \cup {Named(n) : n \in Names}

\* The relative paths of at most k parts.
RECURSIVE RelativePathsUpTo(_)
RelativePathsUpTo(k) ==
    IF k = 0 THEN {<<>>}
    ELSE LET shorter == RelativePathsUpTo(k - 1)
         IN  shorter \cup {Append(r, part) : r \in shorter, part \in RelativeParts}

RelativePaths == RelativePathsUpTo(MaxPathLen)

\* ---------------------------------------------------- symbol paths as text

\* The separators.
Dot == <<".">>

DoubleColon == <<":", ":">>

\* The characters of the strings handed to from_str.
Chars == {"a", "super", ".", ":"}

\* Result<SymbolPath, String>
Err == [ok |-> FALSE, parts |-> <<>>]

\* impl Display for Part
fmt_part(part) == IF part.kind = "Super" THEN <<"super">> ELSE part.name

\* itertools format: the parts, displayed, with the separator between them.
RECURSIVE format(_, _)
format(parts, separator) ==
    IF parts = <<>> THEN <<>>
    ELSE IF Len(parts) = 1 THEN fmt_part(parts[1])
         ELSE fmt_part(Head(parts)) \o separator \o format(Tail(parts), separator)

\* SymbolPath::to_dotted_string
to_dotted_string(parts) ==
    LET separator == IF Len(parts) <= 2 THEN Dot ELSE DoubleColon
    IN  format(parts, separator)

\* impl Display for SymbolPath
fmt(parts) == format(parts, DoubleColon)

\* s.starts_with(pattern)
starts_with(s, pattern) ==
    Len(s) >= Len(pattern) /\ SubSeq(s, 1, Len(pattern)) = pattern

\* s.matches(pattern).count(): the matches do not overlap, leftmost first.
RECURSIVE matches_count(_, _)
matches_count(s, pattern) ==
    IF Len(s) < Len(pattern) THEN 0
    ELSE IF starts_with(s, pattern)
         THEN 1 + matches_count(SubSeq(s, Len(pattern) + 1, Len(s)), pattern)
         ELSE matches_count(Tail(s), pattern)

\* s.split(pattern): `segment` is the text since the last match.
RECURSIVE split_from(_, _, _)
split_from(s, pattern, segment) ==
    IF s = <<>> THEN <<segment>>
    ELSE IF starts_with(s, pattern)
         THEN <<segment>> \o split_from(SubSeq(s, Len(pattern) + 1, Len(s)), pattern, <<>>)
         ELSE split_from(Tail(s), pattern, Append(segment, Head(s)))

split(s, pattern) == split_from(s, pattern, <<>>)

\* A from_str that accepts a string that mixes the two separators.
from_str_lenient(s) ==
    LET double_colons == matches_count(s, DoubleColon)
        segments == split(s, IF double_colons > 0 THEN DoubleColon ELSE Dot)
    IN  Ok([i \in 1..Len(segments) |->
               IF segments[i] = <<"super">> THEN Super ELSE Named(segments[i])])

\* SymbolPath::from_str
from_str(s) ==
    LET dots == matches_count(s, Dot)
        double_colons == matches_count(s, DoubleColon)
        segments == split(s, IF double_colons > 0 THEN DoubleColon ELSE Dot)
    IN  IF dots # 0 /\ double_colons # 0 THEN Err
        ELSE Ok([i \in 1..Len(segments) |->
                    IF segments[i] = <<"super">> THEN Super ELSE Named(segments[i])])

\* The parts of the paths that are printed: `super`, the empty name that
\* From<AbsoluteSymbolPath> puts first, a name, and the name `super`.
PrintedParts == {Super, Named(<<>>), Named(<<"a">>), Named(<<"super">>)}

\* ------------------------------------------------------- array expressions

\* Option<T>
None == [some |-> FALSE]

Some(x) == [some |-> TRUE, v |-> x]

\* Element lists of the blocks: zero to three expressions.
ElemLists == {<<>>, <<"0">>, <<"a", "b">>, <<"a", "b", "c">>}

\* enum ArrayExpression { Value(Vec), RepeatedValue(Vec), Concat(Box, Box) }
Value(v) == [tag |-> "Value", v |-> v]

RepeatedValue(v) == [tag |-> "RepeatedValue", v |-> v]

\* ArrayExpression::concat
Concat(l, r) == [tag |-> "Concat", left |-> l, right |-> r]

ArrayLeaves == {Value(v) : v \in ElemLists} \cup {RepeatedValue(v) : v \in ElemLists}

\* A count of `*` that looks only at the left operand of a concatenation.
RECURSIVE number_of_repetitions_left(_)
number_of_repetitions_left(a) ==
    IF a.tag = "RepeatedValue" THEN 1
    ELSE IF a.tag = "Value" THEN 0
    ELSE number_of_repetitions_left(a.left)

\* ArrayExpression::number_of_repetitions
RECURSIVE number_of_repetitions(_)
number_of_repetitions(a) ==
    IF a.tag = "RepeatedValue" THEN 1
    ELSE IF a.tag = "Value" THEN 0
    ELSE number_of_repetitions(a.left) + number_of_repetitions(a.right)

\* ArrayExpression::constant_length
RECURSIVE constant_length(_)
constant_length(a) ==
    IF a.tag = "RepeatedValue" THEN 0
    ELSE IF a.tag = "Value" THEN Len(a.v)
    ELSE constant_length(a.left) + constant_length(a.right)

\* ArrayExpression::solve: the two assertions, then degree - len.
solve(a, degree) ==
    IF ~(number_of_repetitions(a) <= 1) THEN [ok |-> FALSE, value |-> 0]
    ELSE LET len == constant_length(a)
         IN  IF ~(len <= degree) THEN [ok |-> FALSE, value |-> 0]
             ELSE [ok |-> TRUE, value |-> degree - len]

\* ArrayExpression::pad_with
pad_with(a, pad) == Concat(a, RepeatedValue(<<pad>>))

\* ArrayExpression::pad_with_zeroes; "0" is Expression::Number(0, None).
pad_with_zeroes(a) == pad_with(a, "0")

\* ArrayExpression::last
RECURSIVE last(_)
last(a) ==
    IF a.tag = "Concat" THEN last(a.right)
    ELSE IF a.v = <<>> THEN None ELSE Some(a.v[Len(a.v)])

\* ArrayExpression::pad_with_last
pad_with_last(a) ==
    IF last(a) = None THEN None ELSE Some(pad_with(a, last(a).v))

\* The blocks of a tree, left to right.
RECURSIVE Blocks(_)
Blocks(a) == IF a.tag = "Concat" THEN Blocks(a.left) \o Blocks(a.right) ELSE <<a>>

RECURSIVE SumLen(_)
SumLen(blocks) == IF blocks = <<>> THEN 0 ELSE Len(Head(blocks).v) + SumLen(Tail(blocks))

\* ------------------------------------------------------------ condenser data

\* The result of a call that may panic.
Panicked == [ok |-> FALSE]

Returned(x) == [ok |-> TRUE, v |-> x]

\* A panic and the message it carries.
PanickedWith(message) == [ok |-> FALSE, message |-> message]

\* Type<u64>, the variants the condenser inspects.
TExpr == [t |-> "Expr"]

TInt == [t |-> "Int"]

TArray(b, length) == [t |-> "Array", base |-> b, length |-> length]

TTypeVar(n) == [t |-> "TypeVar", name |-> n]

TTuple(items) == [t |-> "Tuple", items |-> items]

TFunction(params, value) == [t |-> "Function", params |-> params, value |-> value]

\* TypeScheme { vars, ty }; vars is a TypeBounds, the Vec of the pairs
\* <<name, set of trait bounds>>.
TypeScheme(tvars, ty) == [vars |-> tvars, ty |-> ty]

\* impl From<Type> for TypeScheme: no type variables.
TypeSchemeFrom(ty) == TypeScheme(<<>>, ty)

\* A traversal that lists the return type of a function before its parameters.
RECURSIVE contained_type_vars_value_first(_)
contained_type_vars_value_first(ty) ==
    CASE ty.t = "TypeVar" -> <<ty.name>>
      [] ty.t = "Array" -> contained_type_vars_value_first(ty.base)
      [] ty.t = "Tuple" ->
            IF ty.items = <<>> THEN <<>>
            ELSE contained_type_vars_value_first(Head(ty.items))
                 \o contained_type_vars_value_first(TTuple(Tail(ty.items)))
      [] ty.t = "Function" ->
            contained_type_vars_value_first(ty.value)
            \o contained_type_vars_value_first(TTuple(ty.params))
      [] OTHER -> <<>>

\* Type::contained_type_vars_with_repetitions; flat_map_type_vars is the
\* flat_map over the items of a tuple or the parameters of a function.
RECURSIVE contained_type_vars_with_repetitions(_)
RECURSIVE flat_map_type_vars(_)
flat_map_type_vars(items) ==
    IF items = <<>> THEN <<>>
    ELSE contained_type_vars_with_repetitions(Head(items))
         \o flat_map_type_vars(Tail(items))

contained_type_vars_with_repetitions(ty) ==
    CASE ty.t = "TypeVar" -> <<ty.name>>
      [] ty.t = "Array" -> contained_type_vars_with_repetitions(ty.base)
      [] ty.t = "Tuple" -> flat_map_type_vars(ty.items)
      [] ty.t = "Function" ->
            flat_map_type_vars(ty.params)
            \o contained_type_vars_with_repetitions(ty.value)
      [] OTHER -> <<>>

\* itertools unique: the first occurrence of every element, in order.
RECURSIVE unique(_)
unique(names) ==
    IF names = <<>> THEN <<>>
    ELSE LET front == unique(SubSeq(names, 1, Len(names) - 1))
             final == names[Len(names)]
         IN  IF \E i \in DOMAIN front : front[i] = final THEN front
             ELSE Append(front, final)

\* Type::contained_type_vars
contained_type_vars(ty) == unique(contained_type_vars_with_repetitions(ty))

\* An is_concrete_type that looks at the top node only.
is_concrete_type_top(ty) == ty.t # "TypeVar"

\* Type::is_concrete_type
is_concrete_type(ty) == contained_type_vars_with_repetitions(ty) = <<>>

\* A substitution that applies the substitutions inside a replacement that
\* is itself a substituted type variable.
RECURSIVE substitute_type_vars_rescanning(_, _)
substitute_type_vars_rescanning(ty, substitutions) ==
    CASE ty.t = "TypeVar" ->
            IF ty.name \in DOMAIN substitutions
            THEN LET t == substitutions[ty.name]
                 IN  IF t.t = "TypeVar" /\ t.name \in DOMAIN substitutions
                     THEN substitutions[t.name] ELSE t
            ELSE ty
      [] ty.t = "Array" ->
            [ty EXCEPT !.base = substitute_type_vars_rescanning(ty.base, substitutions)]
      [] ty.t = "Tuple" ->
            [ty EXCEPT !.items =
                [i \in DOMAIN ty.items |->
                    substitute_type_vars_rescanning(ty.items[i], substitutions)]]
      [] ty.t = "Function" ->
            [ty EXCEPT !.params =
                [i \in DOMAIN ty.params |->
                    substitute_type_vars_rescanning(ty.params[i], substitutions)],
                       !.value = substitute_type_vars_rescanning(ty.value, substitutions)]
      [] OTHER -> ty

\* Type::substitute_type_vars; substitutions is the HashMap, a function from
\* the substituted names to types. map_substitute is the for_each over items.
RECURSIVE substitute_type_vars(_, _)
RECURSIVE map_substitute(_, _)
map_substitute(items, substitutions) ==
    [i \in DOMAIN items |-> substitute_type_vars(items[i], substitutions)]

substitute_type_vars(ty, substitutions) ==
    CASE ty.t = "TypeVar" ->
            IF ty.name \in DOMAIN substitutions THEN substitutions[ty.name] ELSE ty
      [] ty.t = "Array" ->
            [ty EXCEPT !.base = substitute_type_vars(ty.base, substitutions)]
      [] ty.t = "Tuple" ->
            [ty EXCEPT !.items = map_substitute(ty.items, substitutions)]
      [] ty.t = "Function" ->
            [ty EXCEPT !.params = map_substitute(ty.params, substitutions),
                       !.value = substitute_type_vars(ty.value, substitutions)]
      [] OTHER -> ty

\* format!("{}", n) of a positive number
DigitChars == <<"0", "1", "2", "3", "4", "5", "6", "7", "8", "9">>

RECURSIVE decimal(_)
decimal(n) ==
    IF n < 10 THEN <<DigitChars[n + 1]>>
    ELSE Append(decimal(n \div 10), DigitChars[(n % 10) + 1])

\* The HashMap name_substitutions of simplify_type_vars: of two entries with
\* one key the later one stays.
name_substitutions_of(tvars) ==
    LET n == Len(tvars)
        last_index(v) == CHOOSE i \in 1..n :
                            /\ tvars[i][1] = v
                            /\ \A j \in 1..n : tvars[j][1] = v => j <= i
    IN  [v \in {tvars[i][1] : i \in 1..n} |->
            IF n = 1 THEN <<"T">> ELSE <<"T">> \o decimal(last_index(v))]

\* A simplify_type_vars that renames the variables in the type and leaves
\* `vars` as it was.
simplify_type_vars_keep_vars(s) ==
    LET name_substitutions == name_substitutions_of(s.vars)
    IN  IF Len(s.vars) = 0 THEN Returned(s)
        ELSE IF Cardinality(DOMAIN name_substitutions) # Len(s.vars) THEN Panicked
        ELSE Returned(TypeScheme(
                s.vars,
                substitute_type_vars(s.ty, [v \in DOMAIN name_substitutions |->
                                               TTypeVar(name_substitutions[v])])))

\* A simplify_type_vars that numbers the variables from zero.
simplify_type_vars_from_zero(s) ==
    LET n == Len(s.vars)
        name_substitutions ==
            [v \in {s.vars[i][1] : i \in 1..n} |->
                <<"T">> \o decimal((CHOOSE i \in 1..n : s.vars[i][1] = v) - 1)]
    IN  IF n = 0 THEN Returned(s)
        ELSE Returned(TypeScheme(
                [i \in 1..n |-> <<name_substitutions[s.vars[i][1]], s.vars[i][2]>>],
                substitute_type_vars(s.ty, [v \in DOMAIN name_substitutions |->
                                               TTypeVar(name_substitutions[v])])))

\* A simplify_type_vars that substitutes one variable after the other.
RECURSIVE substitute_in_turn(_, _, _)
substitute_in_turn(ty, tvars, name_substitutions) ==
    IF tvars = <<>> THEN ty
    ELSE LET v == Head(tvars)[1]
         IN  substitute_in_turn(
                substitute_type_vars(ty, (v :> TTypeVar(name_substitutions[v]))),
                Tail(tvars), name_substitutions)

simplify_type_vars_in_turn(s) ==
    LET name_substitutions == name_substitutions_of(s.vars)
    IN  IF Len(s.vars) = 0 THEN Returned(s)
        ELSE IF Cardinality(DOMAIN name_substitutions) # Len(s.vars) THEN Panicked
        ELSE Returned(TypeScheme(
                [i \in 1..Len(s.vars) |->
                    <<name_substitutions[s.vars[i][1]], s.vars[i][2]>>],
                substitute_in_turn(s.ty, s.vars, name_substitutions)))

\* TypeScheme::simplify_type_vars
simplify_type_vars(s) ==
    LET name_substitutions == name_substitutions_of(s.vars)
    IN  IF Len(s.vars) = 0 THEN Returned(s)
        ELSE IF Cardinality(DOMAIN name_substitutions) # Len(s.vars) THEN Panicked
        ELSE Returned(TypeScheme(
                [i \in 1..Len(s.vars) |->
                    <<name_substitutions[s.vars[i][1]], s.vars[i][2]>>],
                substitute_type_vars(s.ty, [v \in DOMAIN name_substitutions |->
                                               TTypeVar(name_substitutions[v])])))

\* Names of type variables: canonical ones, in and out of order.
VarNames == {<<"T">>, <<"T", "1">>, <<"T", "2">>}

\* Sets of trait bounds.
BoundSets == {{}, {"Add"}}

\* The leaves a Type tree is built from.
TypeLeaves == {TInt} \cup {TTypeVar(n) : n \in VarNames}

\* The number of nodes of a Type tree.
RECURSIVE TypeNodes(_)
RECURSIVE SumTypeNodes(_)
SumTypeNodes(items) ==
    IF items = <<>> THEN 0 ELSE TypeNodes(Head(items)) + SumTypeNodes(Tail(items))

TypeNodes(ty) ==
    CASE ty.t = "Array" -> 1 + TypeNodes(ty.base)
      [] ty.t = "Tuple" -> 1 + SumTypeNodes(ty.items)
      [] ty.t = "Function" -> 1 + SumTypeNodes(ty.params) + TypeNodes(ty.value)
      [] OTHER -> 1

\* Symbol { id, kind, length }
Symbol(id, kind, length) == [id |-> id, kind |-> kind, length |-> length]

\* Option<FunctionValueDefinition>
NoDefinition == [tag |-> "None"]

ArrayDefinition == [tag |-> "Array"]

ExpressionDefinition(scheme, e) == [tag |-> "Expression", type_scheme |-> scheme, e |-> e]

\* Expression: a reference, an indexed reference, a number, `l = r`, `[..]`.
ERef(n) == [e |-> "Reference", name |-> n]

EIndex(n, i) == [e |-> "Index", name |-> n, index |-> i]

ENumber == [e |-> "Number"]

EEq(l, r) == [e |-> "Eq", left |-> l, right |-> r]

EArray(items) == [e |-> "Array", items |-> items]

\* Expression::Number(value, ty) with its BigUint value and its ascribed type.
\* A BigUint is the sequence of its 64-bit digits, least significant first,
\* without leading zero digits: <<2>> is 2 and <<0, 1>> is 2^64.
ENumberOf(value, ty) == [e |-> "Number", value |-> value, ty |-> ty]

\* u64::try_from(&BigUint): the value if it has at most one digit.
u64_try_from(value) ==
    IF Len(value) = 0 THEN Returned(0)
    ELSE IF Len(value) = 1 THEN Returned(value[1])
    ELSE Panicked

\* The array-length closure with the assert on the ascribed type left out.
array_length_from_any_literal(l) ==
    IF l.e = "Number" THEN u64_try_from(l.value) ELSE Panicked

\* The closure mapped over ArrayType::length in
\* impl From<ArrayType<Expression>> for ArrayType<u64>
array_length_from(l) ==
    IF l.e = "Number"
    THEN IF l.ty # None THEN Panicked ELSE u64_try_from(l.value)
    ELSE Panicked

\* impl From<Type<Expression>> for Type<u64>, with the From impls of
\* ArrayType, TupleType and FunctionType; map_type_from is the map over the
\* items of a tuple or the parameters of a function.
RECURSIVE type_from(_)
RECURSIVE map_type_from(_)
map_type_from(items) ==
    IF items = <<>> THEN Returned(<<>>)
    ELSE LET first == type_from(Head(items))
             rest == map_type_from(Tail(items))
         IN  IF first.ok /\ rest.ok THEN Returned(<<first.v>> \o rest.v)
             ELSE Panicked

type_from(value) ==
    CASE value.t = "Array" ->
            LET length == IF value.length.some
                          THEN array_length_from(value.length.v)
                          ELSE Returned(None)
                element == type_from(value.base)
            IN  IF ~length.ok \/ ~element.ok THEN Panicked
                ELSE IF value.length.some
                     THEN Returned(TArray(element.v, Some(length.v)))
                     ELSE Returned(TArray(element.v, None))
      [] value.t = "Tuple" ->
            LET items == map_type_from(value.items)
            IN  IF items.ok THEN Returned(TTuple(items.v)) ELSE Panicked
      [] value.t = "Function" ->
            LET params == map_type_from(value.params)
                result == type_from(value.value)
            IN  IF params.ok /\ result.ok
                THEN Returned(TFunction(params.v, result.v))
                ELSE Panicked
      [] OTHER -> Returned(value)

\* The expressions an array length is written as: the literal 2, the literal
\* 2 with an ascribed type, the literal 2^64 and a reference.
LengthExpressions ==
    { ENumberOf(<<2>>, None), ENumberOf(<<2>>, Some(TInt)),
      ENumberOf(<<0, 1>>, None), ERef("N") }

\* The substitutions applied to a type: none, one variable, two variables of
\* which the first is mapped to the second, and a replacement holding an
\* array.
Substitutions ==
    { <<>>,
      [n \in {<<"T">>} |-> TInt],
      [n \in {<<"T">>, <<"T", "1">>} |->
          IF n = <<"T">> THEN TTypeVar(<<"T", "1">>) ELSE TInt],
      [n \in {<<"T", "1">>} |-> TArray(TTypeVar(<<"T">>), None)] }

\* AlgebraicExpression: a column reference (element `index` of an array
\* column), and the difference of two expressions.
AlgReference(n, i) == [op |-> "Reference", name |-> n, index |-> i]

AlgSub(l, r) == [op |-> "Sub", left |-> l, right |-> r]

\* evaluator::Value
VExpression(a) == [tag |-> "Expression", expr |-> a]

VIdentity(l, r) == [tag |-> "Identity", left |-> l, right |-> r]

VArray(items) == [tag |-> "Array", items |-> items]

VInteger == [tag |-> "Integer"]

\* Err(EvalError)
EvalError == [tag |-> "Err"]

IsColumn(symbol) == symbol.kind \in {"Committed", "Fixed", "Intermediate"}

\* Definitions::lookup: a column evaluates to a reference to it, an array
\* column to the array of the references to its elements.
lookup(n, symbols) ==
    IF n \notin DOMAIN symbols THEN EvalError
    ELSE LET symbol == symbols[n].symbol
         IN  IF ~IsColumn(symbol) THEN VInteger
             ELSE IF symbol.length.some
                  THEN VArray([i \in 1..symbol.length.v |-> VExpression(AlgReference(n, i - 1))])
                  ELSE VExpression(AlgReference(n, 0))

\* evaluator::evaluate on the expressions above.
RECURSIVE evaluate(_, _)
evaluate(e, symbols) ==
    IF e.e = "Reference" THEN lookup(e.name, symbols)
    ELSE IF e.e = "Index" THEN
        LET arr == lookup(e.name, symbols)
        IN  IF arr.tag = "Array" /\ e.index < Len(arr.items)
            THEN arr.items[e.index + 1]
            ELSE EvalError          \* "Tried to access element i of array of size n"
    ELSE IF e.e = "Number" THEN VInteger
    ELSE IF e.e = "Eq" THEN
        LET l == evaluate(e.left, symbols)
            r == evaluate(e.right, symbols)
        IN  IF l.tag = "Expression" /\ r.tag = "Expression"
            THEN VIdentity(l.expr, r.expr)
            ELSE EvalError
    ELSE \* "Array"
        LET items == [i \in DOMAIN e.items |-> evaluate(e.items[i], symbols)]
        IN  IF \E i \in DOMAIN items : items[i].tag = "Err"
            THEN EvalError
            ELSE VArray(items)

\* SelectedExpressions { selector, expressions }
SelectedExpressions(selector, expressions) ==
    [selector |-> selector, expressions |-> expressions]

\* Identity { id, kind, source, left, right }
Identity(id, kind, source, left, right) ==
    [id |-> id, kind |-> kind, source |-> source, left |-> left, right |-> right]

\* Identity::expression_for_poly_id: a polynomial identity keeps its single
\* expression as the selector of its left side.
expression_for_poly_id(identity) == identity.left.selector.v

\* Identity::from_polynomial_identity
from_polynomial_identity(id, source, constraint) ==
    Identity(id, "Polynomial", source,
             SelectedExpressions(Some(constraint), <<>>),
             SelectedExpressions(None, <<>>))

\* enum StatementIdentifier { Definition(String), PublicDeclaration(String), Identity(usize) }
StmtDefinition(n) == [tag |-> "Definition", name |-> n, index |-> 0]

StmtPublic(n) == [tag |-> "PublicDeclaration", name |-> n, index |-> 0]

StmtIdentity(i) == [tag |-> "Identity", name |-> "", index |-> i]

\* PolyID::from(&Symbol): the column id and the column type of the symbol.
PolyID(symbol) == [id |-> symbol.id, ptype |-> symbol.kind]

\* PublicDeclaration: its referenced polynomial { name, poly_id }
PublicDeclaration(n, poly_id) == [polynomial |-> [name |-> n, poly_id |-> poly_id]]

\* ------------------------------------------------------- Condenser methods

\* The match on the evaluated result in condense_to_algebraic_expression
expression_of(result) ==
    IF result.tag = "Err" THEN PanickedWith("Error reducing expression to constraint")
    ELSE IF result.tag = "Expression" THEN Returned(result.expr)
    ELSE PanickedWith("Expected expression but got")

\* Condenser::condense_to_algebraic_expression
condense_to_algebraic_expression(e, symbols) == expression_of(evaluate(e, symbols))

\* The match on the evaluated result in
\* condense_to_array_of_algebraic_expressions
array_of_expressions_of(result) ==
    IF result.tag = "Err" THEN PanickedWith("Error reducing expression to constraint")
    ELSE IF result.tag = "Array"
         THEN IF \A i \in DOMAIN result.items : result.items[i].tag = "Expression"
              THEN Returned([i \in DOMAIN result.items |-> result.items[i].expr])
              ELSE PanickedWith("Expected expression but got")
         ELSE PanickedWith("Expected array of algebraic expressions, but got")

\* Condenser::condense_to_array_of_algebraic_expressions
condense_to_array_of_algebraic_expressions(e, symbols) ==
    array_of_expressions_of(evaluate(e, symbols))

\* A condense_to_constraint_or_array that leaves out the elements of an array
\* that are no identity-values.
condense_to_constraint_or_array_filtering(e, symbols) ==
    LET result == evaluate(e, symbols)
    IN  IF result.tag = "Err" THEN PanickedWith("Error reducing expression to constraint")
        ELSE IF result.tag = "Identity"
             THEN Returned(<<AlgSub(result.left, result.right)>>)
        ELSE IF result.tag = "Array"
             THEN LET kept == SelectSeq(result.items, LAMBDA item : item.tag = "Identity")
                  IN  Returned([i \in DOMAIN kept |-> AlgSub(kept[i].left, kept[i].right)])
        ELSE PanickedWith("Expected constraint or array of constraints, but got")

\* A condense_to_constraint_or_array that subtracts the left side from the right.
condense_to_constraint_or_array_swapped(e, symbols) ==
    LET result == evaluate(e, symbols)
    IN  IF result.tag = "Err" THEN PanickedWith("Error reducing expression to constraint")
        ELSE IF result.tag = "Identity"
             THEN Returned(<<AlgSub(result.right, result.left)>>)
        ELSE IF result.tag = "Array"
             THEN IF \A i \in DOMAIN result.items : result.items[i].tag = "Identity"
                  THEN Returned([i \in DOMAIN result.items |->
                                    AlgSub(result.items[i].right, result.items[i].left)])
                  ELSE PanickedWith("Expected constraint, but got")
        ELSE PanickedWith("Expected constraint or array of constraints, but got")

\* The match on the evaluated result in condense_to_constraint_or_array
constraints_of(result) ==
    IF result.tag = "Err" THEN PanickedWith("Error reducing expression to constraint")
    ELSE IF result.tag = "Identity"
         THEN Returned(<<AlgSub(result.left, result.right)>>)
    ELSE IF result.tag = "Array"
         THEN IF \A i \in DOMAIN result.items : result.items[i].tag = "Identity"
              THEN Returned([i \in DOMAIN result.items |->
                                AlgSub(result.items[i].left, result.items[i].right)])
              ELSE PanickedWith("Expected constraint, but got")
    ELSE PanickedWith("Expected constraint or array of constraints, but got")

\* Condenser::condense_to_constraint_or_array
condense_to_constraint_or_array(e, symbols) == constraints_of(evaluate(e, symbols))

\* A condense_selected_expressions that collects the expressions back to front.
condense_selected_expressions_reversed(sel_expr, symbols) ==
    LET selector == IF sel_expr.selector.some
                    THEN condense_to_algebraic_expression(sel_expr.selector.v, symbols)
                    ELSE Panicked
        n == Len(sel_expr.expressions)
        expressions == [i \in 1..n |->
                          condense_to_algebraic_expression(sel_expr.expressions[n + 1 - i],
                                                           symbols)]
        failed == {i \in 1..n : ~expressions[i].ok}
    IN  IF sel_expr.selector.some /\ ~selector.ok THEN selector
        ELSE IF failed # {}
        THEN expressions[CHOOSE i \in failed : \A k \in failed : i <= k]
        ELSE Returned(SelectedExpressions(
                 IF sel_expr.selector.some THEN Some(selector.v) ELSE None,
                 [i \in 1..n |-> expressions[i].v]))

\* Condenser::condense_selected_expressions
condense_selected_expressions(sel_expr, symbols) ==
    LET selector == IF sel_expr.selector.some
                    THEN condense_to_algebraic_expression(sel_expr.selector.v, symbols)
                    ELSE Panicked
        expressions == [i \in DOMAIN sel_expr.expressions |->
                          condense_to_algebraic_expression(sel_expr.expressions[i], symbols)]
        failed == {i \in DOMAIN expressions : ~expressions[i].ok}
    IN  IF sel_expr.selector.some /\ ~selector.ok THEN selector
        ELSE IF failed # {}
        THEN expressions[CHOOSE i \in failed : \A k \in failed : i <= k]
        ELSE Returned(SelectedExpressions(
                 IF sel_expr.selector.some THEN Some(selector.v) ELSE None,
                 [i \in DOMAIN expressions |-> expressions[i].v]))

\* Condenser::condense_identity
condense_identity(identity, symbols) ==
    IF identity.kind = "Polynomial"
    THEN LET constraints ==
                 condense_to_constraint_or_array(expression_for_poly_id(identity), symbols)
         IN  IF ~constraints.ok THEN constraints
             ELSE Returned([i \in DOMAIN constraints.v |->
                      from_polynomial_identity(identity.id, identity.source, constraints.v[i])])
    ELSE LET left == condense_selected_expressions(identity.left, symbols)
             right == condense_selected_expressions(identity.right, symbols)
         IN  IF ~left.ok THEN left
             ELSE IF ~right.ok THEN right
             ELSE Returned(<<Identity(identity.id, identity.kind, identity.source,
                                      left.v, right.v)>>)

\* ------------------------------------------------------------ condense steps

\* A flat_map that keeps the index of the source identity in the statements
\* it emits.
RECURSIVE condense_source_order_stale(_, _, _, _)
condense_source_order_stale(stmts, identities, symbols, acc) ==
    IF stmts = <<>> \/ ~acc.ok THEN acc
    ELSE LET s == Head(stmts)
         IN  IF s.tag = "Identity"
             THEN IF s.index >= Len(identities)
                  THEN PanickedWith("index out of bounds")
                  ELSE LET r == condense_identity(identities[s.index + 1], symbols)
                       IN  IF ~r.ok THEN r
                           ELSE condense_source_order_stale(Tail(stmts), identities, symbols,
                                  [ok |-> TRUE,
                                   condensed_identities |-> acc.condensed_identities \o r.v,
                                   source_order |-> acc.source_order \o
                                       [j \in 1..Len(r.v) |-> StmtIdentity(s.index + j - 1)]])
             ELSE condense_source_order_stale(Tail(stmts), identities, symbols,
                    [acc EXCEPT !.source_order = Append(@, s)])

\* A flat_map that drops an identity it cannot condense and goes on.
RECURSIVE condense_source_order_skipping(_, _, _, _)
condense_source_order_skipping(stmts, identities, symbols, acc) ==
    IF stmts = <<>> THEN acc
    ELSE LET s == Head(stmts)
         IN  IF s.tag = "Identity"
             THEN LET r == IF s.index >= Len(identities)
                           THEN PanickedWith("index out of bounds")
                           ELSE condense_identity(identities[s.index + 1], symbols)
                      n == Len(acc.condensed_identities)
                  IN  IF ~r.ok
                      THEN condense_source_order_skipping(Tail(stmts), identities, symbols, acc)
                      ELSE condense_source_order_skipping(Tail(stmts), identities, symbols,
                             [ok |-> TRUE,
                              condensed_identities |-> acc.condensed_identities \o r.v,
                              source_order |-> acc.source_order \o
                                  [j \in 1..Len(r.v) |-> StmtIdentity(n + j - 1)]])
             ELSE condense_source_order_skipping(Tail(stmts), identities, symbols,
                    [acc EXCEPT !.source_order = Append(@, s)])

\* condense, lines 35-52: the flat_map over source_order. acc holds the
\* condensed identities pushed and the statements emitted so far.
RECURSIVE condense_source_order(_, _, _, _)
condense_source_order(stmts, identities, symbols, acc) ==
    IF stmts = <<>> \/ ~acc.ok THEN acc
    ELSE LET s == Head(stmts)
         IN  IF s.tag = "Identity"
             THEN IF s.index >= Len(identities)
                  THEN PanickedWith("index out of bounds") \* identities[index]
                  ELSE LET r == condense_identity(identities[s.index + 1], symbols)
                           n == Len(acc.condensed_identities)
                       IN  IF ~r.ok THEN r
                           ELSE condense_source_order(Tail(stmts), identities, symbols,
                                  [ok |-> TRUE,
                                   condensed_identities |-> acc.condensed_identities \o r.v,
                                   source_order |-> acc.source_order \o
                                       [j \in 1..Len(r.v) |-> StmtIdentity(n + j - 1)]])
             ELSE condense_source_order(Tail(stmts), identities, symbols,
                    [acc EXCEPT !.source_order = Append(@, s)])

\* The closure without the check that the type scheme binds no type variable.
intermediate_column_any_vars(entry, symbols) ==
    IF entry.definition.tag # "Expression"
    THEN PanickedWith("Expected expression")
    ELSE LET e == entry.definition
         IN  IF entry.symbol.length.some
             THEN IF ~e.type_scheme.some
                  THEN PanickedWith("called Option::unwrap() on a None value")
                  ELSE LET scheme == e.type_scheme.v
                       IN  IF ~(scheme.ty.t = "Array" /\ scheme.ty.base = TExpr)
                           THEN PanickedWith("Intermediate column type has to be expr[], but got")
                           ELSE LET result ==
                                      condense_to_array_of_algebraic_expressions(e.e, symbols)
                                IN  IF ~result.ok THEN result
                                    ELSE IF Len(result.v) # entry.symbol.length.v
                                         THEN PanickedWith("assertion left == right failed")
                                         ELSE Returned(<<entry.symbol, result.v>>)
             ELSE IF e.type_scheme # Some(TypeSchemeFrom(TExpr))
                  THEN PanickedWith("Intermediate column type has to be expr, but got")
                  ELSE LET result == condense_to_algebraic_expression(e.e, symbols)
                       IN  IF ~result.ok THEN result
                           ELSE Returned(<<entry.symbol, <<result.v>>>>)

\* The closure without the comparison of the result's length with the
\* declared length.
intermediate_column_any_length(entry, symbols) ==
    IF entry.definition.tag # "Expression"
    THEN PanickedWith("Expected expression")
    ELSE LET e == entry.definition
         IN  IF entry.symbol.length.some
             THEN IF ~e.type_scheme.some
                  THEN PanickedWith("called Option::unwrap() on a None value")
                  ELSE LET scheme == e.type_scheme.v
                       IN  IF ~(/\ scheme.vars = <<>>
                                /\ scheme.ty.t = "Array"
                                /\ scheme.ty.base = TExpr)
                           THEN PanickedWith("Intermediate column type has to be expr[], but got")
                           ELSE LET result ==
                                      condense_to_array_of_algebraic_expressions(e.e, symbols)
                                IN  IF ~result.ok THEN result
                                    ELSE Returned(<<entry.symbol, result.v>>)
             ELSE IF e.type_scheme # Some(TypeSchemeFrom(TExpr))
                  THEN PanickedWith("Intermediate column type has to be expr, but got")
                  ELSE LET result == condense_to_algebraic_expression(e.e, symbols)
                       IN  IF ~result.ok THEN result
                           ELSE Returned(<<entry.symbol, <<result.v>>>>)

\* condense, lines 58-87: the filter_map closure on one Intermediate symbol.
intermediate_column(entry, symbols) ==
    IF entry.definition.tag # "Expression"
    THEN PanickedWith("Expected expression")
    ELSE LET e == entry.definition
         IN  IF entry.symbol.length.some
             THEN IF ~e.type_scheme.some
                  THEN PanickedWith("called Option::unwrap() on a None value")
                  ELSE LET scheme == e.type_scheme.v
                       IN  IF ~(/\ scheme.vars = <<>>
                                /\ scheme.ty.t = "Array"
                                /\ scheme.ty.base = TExpr)
                           THEN PanickedWith("Intermediate column type has to be expr[], but got")
                           ELSE LET result ==
                                      condense_to_array_of_algebraic_expressions(e.e, symbols)
                                IN  IF ~result.ok THEN result
                                    ELSE IF Len(result.v) # entry.symbol.length.v
                                         THEN PanickedWith("assertion left == right failed")
                                         ELSE Returned(<<entry.symbol, result.v>>)
             ELSE IF e.type_scheme # Some(TypeSchemeFrom(TExpr))
                  THEN PanickedWith("Intermediate column type has to be expr, but got")
                  ELSE LET result == condense_to_algebraic_expression(e.e, symbols)
                       IN  IF ~result.ok THEN result
                           ELSE Returned(<<entry.symbol, <<result.v>>>>)

IsIntermediate(entry) == entry.symbol.kind = "Intermediate"

\* A retain that keeps the symbols that have an expression as definition.
retain_defined(defs, columns) ==
    [n \in {k \in DOMAIN defs :
                k \notin DOMAIN columns \/ defs[k].definition.tag = "Expression"} |-> defs[n]]

\* A retain that keeps nothing.
retain_nothing(defs, columns) == <<>>

\* A retain that removes nothing.
retain_all(defs, columns) == defs

\* condense, line 90: definitions.retain(|name, _| !intermediate_columns.contains_key(name))
retain(defs, columns) == [n \in DOMAIN defs \ DOMAIN columns |-> defs[n]]

\* A loop body that leaves the declaration as it is when the symbol is missing.
resolve_public_lenient(decl, defs) ==
    IF decl.polynomial.name \notin DOMAIN defs
    THEN Returned(decl)
    ELSE Returned(PublicDeclaration(decl.polynomial.name,
                                    Some(PolyID(defs[decl.polynomial.name].symbol))))

\* condense, lines 93-100: the body of the loop over the public declarations.
resolve_public(decl, defs) ==
    IF decl.polynomial.name \notin DOMAIN defs
    THEN PanickedWith("Symbol not found.")
    ELSE Returned(PublicDeclaration(decl.polynomial.name,
                                    Some(PolyID(defs[decl.polynomial.name].symbol))))

\* ------------------------------------------------------- condense: inputs

\* The committed column x, always declared.
SymbolX == [symbol |-> Symbol(0, "Committed", None), definition |-> NoDefinition]

\* The second symbol w: a committed array column, or a well-formed scalar
\* intermediate column `col w = x`.
EntriesW ==
    { [symbol |-> Symbol(1, "Committed", Some(2)), definition |-> NoDefinition],
      [symbol |-> Symbol(1, "Intermediate", None),
       definition |-> ExpressionDefinition(Some(TypeSchemeFrom(TExpr)), ERef("x"))] }

\* Declared type schemes of the intermediate column m.
SchemePool ==
    { None,
      Some(TypeSchemeFrom(TExpr)),
      Some(TypeSchemeFrom(TArray(TExpr, None))),
      Some(TypeSchemeFrom(TArray(TExpr, Some(2)))),
      Some(TypeSchemeFrom(TArray(TInt, None))),
      Some(TypeScheme(<<<<<<"T">>, {}>>>>, TExpr)),
      Some(TypeScheme(<<<<<<"T">>, {}>>>>, TArray(TExpr, None))) }

\* Bodies of the intermediate column m.
BodyPool ==
    { ERef("x"),
      ERef("w"),
      EArray(<<ERef("x")>>),
      EArray(<<ERef("x"), EIndex("w", 1)>>),
      EArray(<<ERef("x"), ENumber>>),
      ENumber,
      EIndex("w", 2) }

\* The third symbol m, when declared: an intermediate column.
EntriesM ==
    { [symbol |-> Symbol(2, "Intermediate", l), definition |-> d] :
        l \in {None, Some(1), Some(2)},
        d \in {NoDefinition, ArrayDefinition}
              \cup {ExpressionDefinition(s, e) : s \in SchemePool, e \in BodyPool} }

\* The table {x, w} or {x, w, m} with m drawn from ms.
TablesWith(ms) ==
    { [n \in {"x", "w"} |-> IF n = "x" THEN SymbolX ELSE w] : w \in EntriesW }
    \cup
    { [n \in {"x", "w", "m"} |-> IF n = "x" THEN SymbolX ELSE IF n = "w" THEN w ELSE m] :
        w \in EntriesW, m \in ms }

DefinitionTables == TablesWith(EntriesM)

\* The tables whose m, when declared, is `col m = x` or `col m[2] = [x, w[1]]`.
WellFormedTables ==
    TablesWith({ [symbol |-> Symbol(2, "Intermediate", None),
                  definition |-> ExpressionDefinition(Some(TypeSchemeFrom(TExpr)), ERef("x"))],
                 [symbol |-> Symbol(2, "Intermediate", Some(2)),
                  definition |-> ExpressionDefinition(Some(TypeSchemeFrom(TArray(TExpr, None))),
                                     EArray(<<ERef("x"), EIndex("w", 1)>>))] })

\* Public declarations: none, one of x, one of m, or one of x and one of w.
PublicTables ==
    { <<>>,
      [n \in {"P"} |-> PublicDeclaration("x", None)],
      [n \in {"P"} |-> PublicDeclaration("m", None)],
      [n \in {"P", "Q"} |-> PublicDeclaration(IF n = "P" THEN "x" ELSE "w", None)] }

\* The left and right sides of the source identities (kind, left, right).
IdentityPool ==
    { \* m = m
      [kind |-> "Polynomial",
       left |-> SelectedExpressions(Some(EEq(ERef("m"), ERef("m"))), <<>>),
       right |-> SelectedExpressions(None, <<>>)],
      \* an array-producing function call that yields []
      [kind |-> "Polynomial",
       left |-> SelectedExpressions(Some(EArray(<<>>)), <<>>),
       right |-> SelectedExpressions(None, <<>>)],
      \* .. that yields [x = w[0], w[1] = x]
      [kind |-> "Polynomial",
       left |-> SelectedExpressions(Some(EArray(<<EEq(ERef("x"), EIndex("w", 0)),
                                                  EEq(EIndex("w", 1), ERef("x"))>>)), <<>>),
       right |-> SelectedExpressions(None, <<>>)],
      \* .. that yields [x = x, x]
      [kind |-> "Polynomial",
       left |-> SelectedExpressions(Some(EArray(<<EEq(ERef("x"), ERef("x")), ERef("x")>>)), <<>>),
       right |-> SelectedExpressions(None, <<>>)],
      \* x
      [kind |-> "Polynomial",
       left |-> SelectedExpressions(Some(ERef("x")), <<>>),
       right |-> SelectedExpressions(None, <<>>)],
      \* x { x, w[0] } in { x, x }
      [kind |-> "Lookup",
       left |-> SelectedExpressions(Some(ERef("x")), <<ERef("x"), EIndex("w", 0)>>),
       right |-> SelectedExpressions(None, <<ERef("x"), ERef("x")>>)],
      \* { x, m } is w { m, x }
      [kind |-> "Permutation",
       left |-> SelectedExpressions(None, <<ERef("x"), ERef("m")>>),
       right |-> SelectedExpressions(Some(ERef("w")), <<ERef("m"), ERef("x")>>)],
      \* { x, w[1] } connect { w[0], x }
      [kind |-> "Connect",
       left |-> SelectedExpressions(None, <<ERef("x"), EIndex("w", 1)>>),
       right |-> SelectedExpressions(None, <<EIndex("w", 0), ERef("x")>>)],
      \* a Connect identity built with a selector: x { x } connect { x }
      [kind |-> "Connect",
       left |-> SelectedExpressions(Some(ERef("x")), <<ERef("x")>>),
       right |-> SelectedExpressions(None, <<ERef("x")>>)] }

\* SourceRef of the i-th identity of the source.
SourceRef(i) == [line |-> i]

\* The identities as the analyzer hands them over: ids 0, 1, .. in source order.
WithIds(shapes) ==
    [i \in DOMAIN shapes |->
        Identity(i - 1, shapes[i].kind, SourceRef(i), shapes[i].left, shapes[i].right)]

IdentityListsUpTo(k) ==
    UNION { {WithIds(shapes) : shapes \in [1..n -> IdentityPool]} : n \in 0..k }

IdentityLists == IdentityListsUpTo(MaxIdentities)

RECURSIVE Interleave(_, _)
Interleave(a, b) == IF a = <<>> THEN b ELSE <<Head(a)>> \o Interleave(b, Tail(a))

\* The declaration orders of the source: the public declarations, then the
\* definitions and the identities in alternation, a definition or an identity
\* first. Every identity occurs once, in the order of its index.
SourceOrdersOf(defs, publics, identities) ==
    LET names == SelectSeq(<<"x", "w", "m">>, LAMBDA n : n \in DOMAIN defs)
        pubs == SelectSeq(<<"P", "Q">>, LAMBDA n : n \in DOMAIN publics)
        head == [i \in DOMAIN pubs |-> StmtPublic(pubs[i])]
        ds == [i \in DOMAIN names |-> StmtDefinition(names[i])]
        ids == [i \in DOMAIN identities |-> StmtIdentity(i - 1)]
    IN  {head \o Interleave(ds, ids), head \o Interleave(ids, ds)}

\* degree: Option<DegreeType>
Degrees == {None, Some(16)}

\* The arguments of one call of condense.
InputOf(degree, defs, publics, identities, order) ==
    [degree |-> degree,
     definitions |-> defs,
     public_declarations |-> publics,
     identities |-> identities,
     source_order |-> order]

\* Every definition table with at most one identity, and the well-formed
\* tables with up to MaxIdentities identities.
InputClasses ==
    { [tables |-> DefinitionTables, lists |-> IdentityListsUpTo(1)],
      [tables |-> WellFormedTables, lists |-> IdentityLists] }

\* ------------------------------------------------------- condense: actions

\* The call condense(degree, definitions, public_declarations, identities, source_order).
CondStart ==
    /\ pc = "start"
    /\ \E class \in InputClasses :
          \E defs \in class.tables, publics \in PublicTables, identities \in class.lists :
             \E degree \in Degrees, order \in SourceOrdersOf(defs, publics, identities) :
                input = InputOf(degree, defs, publics, identities, order)
    /\ condensed_identities = <<>>
    /\ source_order = input.source_order
    /\ intermediate_columns = <<>>
    /\ definitions = input.definitions
    /\ public_declarations = input.public_declarations
    /\ analyzed = None
    /\ steps = <<>>
    /\ failure = None

\* The condense variables of a specification that does not call condense.
CondIdle ==
    /\ pc = "idle"
    /\ input = <<>>
    /\ condensed_identities = <<>>
    /\ source_order = <<>>
    /\ intermediate_columns = <<>>
    /\ definitions = <<>>
    /\ public_declarations = <<>>
    /\ analyzed = None
    /\ steps = <<>>
    /\ failure = None

\* A symbol table taken after the intermediate columns were removed.
symbols_without_intermediates ==
    [n \in {k \in DOMAIN input.definitions : ~IsIntermediate(input.definitions[k])} |->
        input.definitions[n]]

\* Condenser.symbols: definitions.clone(), taken before any step.
symbols == input.definitions

\* Lines 33-52: condense the identities and rewrite the source order.
CondenseIdentities ==
    /\ pc = "start"
    /\ steps' = Append(steps, "identities")
    /\ LET r == condense_source_order(source_order, input.identities, symbols,
                    [ok |-> TRUE, condensed_identities |-> <<>>, source_order |-> <<>>])
       IN  IF r.ok
           THEN /\ condensed_identities' = r.condensed_identities
                /\ source_order' = r.source_order
                /\ pc' = "identities"
                /\ UNCHANGED failure
           ELSE /\ pc' = "aborted"
                /\ failure' = Some(r.message)
                /\ UNCHANGED <<condensed_identities, source_order>>
    /\ UNCHANGED <<input, intermediate_columns, definitions, public_declarations, analyzed,
                   pathVars, arrVars, textVars, typeVars>>

\* Lines 54-90: extract the intermediate columns and prune the definitions.
\* The table is a HashMap: of several columns that panic, any may be the
\* first the iteration meets.
ExtractIntermediates ==
    /\ pc = "identities"
    /\ steps' = Append(steps, "intermediates")
    /\ LET names == {n \in DOMAIN definitions : IsIntermediate(definitions[n])}
           columns == [n \in names |-> intermediate_column(definitions[n], symbols)]
       IN  IF \A n \in names : columns[n].ok
           THEN /\ intermediate_columns' = [n \in names |-> columns[n].v]
                /\ definitions' = retain(definitions, intermediate_columns')
                /\ pc' = "intermediates"
                /\ UNCHANGED failure
           ELSE /\ pc' = "aborted"
                /\ \E n \in names : ~columns[n].ok /\ failure' = Some(columns[n].message)
                /\ UNCHANGED <<intermediate_columns, definitions>>
    /\ UNCHANGED <<input, condensed_identities, source_order, public_declarations, analyzed,
                   pathVars, arrVars, textVars, typeVars>>

\* Lines 92-110: resolve the public declarations and return the Analyzed.
ResolvePublics ==
    /\ pc = "intermediates"
    /\ steps' = Append(steps, "publics")
    /\ LET resolved == [p \in DOMAIN public_declarations |->
                          resolve_public(public_declarations[p], definitions)]
       IN  IF \A p \in DOMAIN resolved : resolved[p].ok
           THEN /\ public_declarations' = [p \in DOMAIN resolved |-> resolved[p].v]
                /\ analyzed' = Some([degree |-> input.degree,
                                     definitions |-> definitions,
                                     public_declarations |-> public_declarations',
                                     intermediate_columns |-> intermediate_columns,
                                     identities |-> condensed_identities,
                                     source_order |-> source_order])
                /\ pc' = "done"
                /\ UNCHANGED failure
           ELSE /\ pc' = "aborted"
                /\ \E p \in DOMAIN resolved :
                      ~resolved[p].ok /\ failure' = Some(resolved[p].message)
                /\ UNCHANGED <<public_declarations, analyzed>>
    /\ UNCHANGED <<input, condensed_identities, source_order, intermediate_columns,
                   definitions, pathVars, arrVars, textVars, typeVars>>

\* ------------------------------------------------------ ArraySpec: actions

ArrStart ==
    /\ arr_pc = "build"
    /\ array_expr \in ArrayLeaves          \* ArrayExpression::value / repeated_value
    /\ solve_degree = 0
    /\ solved = [ok |-> FALSE, value |-> 0]
    /\ padded = None

\* The array variables of a specification that uses no array expression.
ArrIdle ==
    /\ arr_pc = "idle"
    /\ array_expr = Value(<<>>)
    /\ solve_degree = 0
    /\ solved = [ok |-> FALSE, value |-> 0]
    /\ padded = None

\* self.concat(other) with a block on either side
ConcatBlock ==
    /\ arr_pc = "build"
    /\ Len(Blocks(array_expr)) < MaxLeaves
    /\ \E leaf \in ArrayLeaves :
        \/ array_expr' = Concat(array_expr, leaf)
        \/ array_expr' = Concat(leaf, array_expr)
    /\ UNCHANGED <<arr_pc, solve_degree, solved, padded, pathVars, condVars, textVars, typeVars>>

\* array_expr.solve(degree)
Solve ==
    /\ arr_pc = "build"
    /\ \E d \in 0..MaxDegree :
        /\ solve_degree' = d
        /\ solved' = solve(array_expr, d)
    /\ arr_pc' = "solved"
    /\ UNCHANGED <<array_expr, padded, pathVars, condVars, textVars, typeVars>>

\* array_expr.clone().pad_with_zeroes()
PadWithZeroes ==
    /\ arr_pc = "build"
    /\ padded' = Some(pad_with_zeroes(array_expr))
    /\ arr_pc' = "padded_zeroes"
    /\ UNCHANGED <<array_expr, solve_degree, solved, pathVars, condVars, textVars, typeVars>>

\* array_expr.clone().pad_with_last()
PadWithLast ==
    /\ arr_pc = "build"
    /\ padded' = pad_with_last(array_expr)
    /\ arr_pc' = "padded_last"
    /\ UNCHANGED <<array_expr, solve_degree, solved, pathVars, condVars, textVars, typeVars>>

\* ------------------------------------------------------- PathSpec: actions

PathStart ==
    /\ path_pc = "build"
    /\ self_path = <<>>
    /\ base = <<>>
    /\ rel = <<>>
    /\ joined = Panic
    /\ prefix = <<>>

\* The path variables of a specification that uses no path.
PathIdle ==
    /\ path_pc = "idle"
    /\ self_path = <<>>
    /\ base = <<>>
    /\ rel = <<>>
    /\ joined = Panic
    /\ prefix = <<>>

\* AbsoluteSymbolPath::push on either path
Push ==
    /\ path_pc = "build"
    /\ \E n \in Names :
        \/ /\ Len(self_path) < MaxPathLen
           /\ self_path' = Append(self_path, n)
           /\ base' = base
        \/ /\ Len(base) < MaxPathLen
           /\ base' = Append(base, n)
           /\ self_path' = self_path
    /\ UNCHANGED <<path_pc, rel, joined, prefix, arrVars, condVars, textVars, typeVars>>

\* AbsoluteSymbolPath::pop on either path (None on the empty path)
Pop ==
    /\ path_pc = "build"
    /\ \/ /\ self_path' = SubSeq(self_path, 1, saturating_sub(Len(self_path), 1))
          /\ base' = base
       \/ /\ base' = SubSeq(base, 1, saturating_sub(Len(base), 1))
          /\ self_path' = self_path
    /\ UNCHANGED <<path_pc, rel, joined, prefix, arrVars, condVars, textVars, typeVars>>

\* let rel = v.relative_to(&base);
RelativeTo ==
    /\ path_pc = "build"
    /\ rel' = relative_to(self_path, base)
    /\ path_pc' = "relative"
    /\ UNCHANGED <<self_path, base, joined, prefix, arrVars, condVars, textVars, typeVars>>

\* self.common_prefix(&base)
CommonPrefix ==
    /\ path_pc = "build"
    /\ prefix' = common_prefix(self_path, base)
    /\ path_pc' = "prefixed"
    /\ UNCHANGED <<self_path, base, rel, joined, arrVars, condVars, textVars, typeVars>>

\* let rel: SymbolPath = self_path.into();
FromAbsolute ==
    /\ path_pc = "build"
    /\ rel' = SymbolPathFrom(self_path)
    /\ path_pc' = "absolute"
    /\ UNCHANGED <<self_path, base, joined, prefix, arrVars, condVars, textVars, typeVars>>

\* let rel = SymbolPath::from_parts(parts); the path `self` plays no role.
FromParts ==
    /\ path_pc = "build"
    /\ self_path = <<>>
    /\ \E parts \in RelativePaths : rel' = parts
    /\ path_pc' = "parts"
    /\ UNCHANGED <<self_path, base, joined, prefix, arrVars, condVars, textVars, typeVars>>

\* base.join(rel), on a relative path of any of the three origins
Join ==
    /\ path_pc \in {"relative", "absolute", "parts"}
    /\ joined' = join(base, rel)
    /\ path_pc' = CASE path_pc = "relative" -> "joined"
                   [] path_pc = "absolute" -> "joined_absolute"
                   [] path_pc = "parts" -> "joined_parts"
    /\ UNCHANGED <<self_path, base, rel, prefix, arrVars, condVars, textVars, typeVars>>

\* ------------------------------------------------------- TextSpec: actions

TextStart ==
    /\ text_pc = "build"
    /\ symbol_path = <<>>               \* SymbolPath::default()
    /\ text = <<>>
    /\ parsed = Err

\* The text variables of a specification that prints and parses no path.
TextIdle ==
    /\ text_pc = "idle"
    /\ symbol_path = <<>>
    /\ text = <<>>
    /\ parsed = Err

\* SymbolPath::join with a one-part path: one more part at the end
PushPart ==
    /\ text_pc = "build"
    /\ Len(symbol_path) < MaxParts
    /\ \E part \in PrintedParts : symbol_path' = Append(symbol_path, part)
    /\ UNCHANGED <<text_pc, text, parsed, pathVars, arrVars, condVars, typeVars>>

\* let text = symbol_path.to_dotted_string();
ToDottedString ==
    /\ text_pc = "build"
    /\ text' = to_dotted_string(symbol_path)
    /\ text_pc' = "dotted"
    /\ UNCHANGED <<symbol_path, parsed, pathVars, arrVars, condVars, typeVars>>

\* let text = symbol_path.to_string();
Display ==
    /\ text_pc = "build"
    /\ text' = fmt(symbol_path)
    /\ text_pc' = "displayed"
    /\ UNCHANGED <<symbol_path, parsed, pathVars, arrVars, condVars, typeVars>>

\* A string that was printed from no path: one more character.
TypeChar ==
    /\ text_pc \in {"build", "typing"}
    /\ symbol_path = <<>>
    /\ Len(text) < MaxTextLen
    /\ \E c \in Chars : text' = Append(text, c)
    /\ text_pc' = "typing"
    /\ UNCHANGED <<symbol_path, parsed, pathVars, arrVars, condVars, typeVars>>

\* SymbolPath::from_str(&text)
FromStr ==
    /\ text_pc \in {"typing", "dotted", "displayed"}
    /\ parsed' = from_str(text)
    /\ text_pc' = CASE text_pc = "typing" -> "parsed_typed"
                   [] text_pc = "dotted" -> "parsed_dotted"
                   [] text_pc = "displayed" -> "parsed_displayed"
    /\ UNCHANGED <<symbol_path, text, pathVars, arrVars, condVars, typeVars>>

\* ------------------------------------------------------- TypeSpec: actions

TypeStart ==
    /\ type_pc = "build"
    /\ \E leaf \in TypeLeaves : type_scheme = TypeSchemeFrom(leaf)
    /\ type_vars = <<>>
    /\ concrete = FALSE
    /\ simplified = Panicked
    /\ resimplified = Panicked
    /\ occurrences = <<>>
    /\ subst = <<>>
    /\ substituted = TInt
    /\ converted = Panicked

\* The type variables of a specification that uses no type type_scheme.
TypeIdle ==
    /\ type_pc = "idle"
    /\ type_scheme = TypeSchemeFrom(TInt)
    /\ type_vars = <<>>
    /\ concrete = FALSE
    /\ simplified = Panicked
    /\ resimplified = Panicked
    /\ occurrences = <<>>
    /\ subst = <<>>
    /\ substituted = TInt
    /\ converted = Panicked

\* Type::Array(ArrayType { base, length }) around the type built so far.
\* Under bound variables the length is absent or a resolved one, which keeps
\* the schemes few; the operations on schemes do not read the lengths.
WrapArray ==
    /\ type_pc = "build"
    /\ TypeNodes(type_scheme.ty) < MaxTypeNodes
    /\ \E length \in {None} \cup {Some(l) : l \in LengthExpressions} :
        /\ IF type_scheme.vars # <<>> /\ length.some
           THEN array_length_from(length.v).ok
           ELSE TRUE
        /\ type_scheme' = [type_scheme EXCEPT !.ty = TArray(type_scheme.ty, length)]
    /\ UNCHANGED <<type_pc, type_vars, concrete, simplified, resimplified,
                   occurrences, subst, substituted, converted,
                   pathVars, arrVars, condVars, textVars>>

\* Type::Tuple(TupleType { items }) of the type built so far and a leaf
WrapTuple ==
    /\ type_pc = "build"
    /\ TypeNodes(type_scheme.ty) + 1 < MaxTypeNodes
    /\ \E leaf \in TypeLeaves :
        \/ type_scheme' = [type_scheme EXCEPT !.ty = TTuple(<<type_scheme.ty, leaf>>)]
        \/ type_scheme' = [type_scheme EXCEPT !.ty = TTuple(<<leaf, type_scheme.ty>>)]
    /\ UNCHANGED <<type_pc, type_vars, concrete, simplified, resimplified,
                   occurrences, subst, substituted, converted,
                   pathVars, arrVars, condVars, textVars>>

\* Type::Function(FunctionType { params, value }) of the type built so far
\* and a leaf
WrapFunction ==
    /\ type_pc = "build"
    /\ TypeNodes(type_scheme.ty) + 1 < MaxTypeNodes
    /\ \E leaf \in TypeLeaves :
        \/ type_scheme' = [type_scheme EXCEPT !.ty = TFunction(<<type_scheme.ty>>, leaf)]
        \/ type_scheme' = [type_scheme EXCEPT !.ty = TFunction(<<leaf>>, type_scheme.ty)]
    /\ UNCHANGED <<type_pc, type_vars, concrete, simplified, resimplified,
                   occurrences, subst, substituted, converted,
                   pathVars, arrVars, condVars, textVars>>

\* One more bound variable, of a name that is not bound yet, with its bounds,
\* over a type whose array lengths are resolved
BindVar ==
    /\ type_pc = "build"
    /\ Len(type_scheme.vars) < MaxTypeVars
    /\ type_from(type_scheme.ty).ok
    /\ \E n \in VarNames, bounds \in BoundSets :
        /\ \A i \in DOMAIN type_scheme.vars : type_scheme.vars[i][1] # n
        /\ type_scheme' = [type_scheme EXCEPT !.vars = Append(type_scheme.vars, <<n, bounds>>)]
    /\ UNCHANGED <<type_pc, type_vars, concrete, simplified, resimplified,
                   occurrences, subst, substituted, converted,
                   pathVars, arrVars, condVars, textVars>>

\* type_scheme.ty.contained_type_vars().collect(), the occurrences it is
\* computed from, and type_scheme.ty.is_concrete_type()
Inspect ==
    /\ type_pc = "build"
    /\ occurrences' = contained_type_vars_with_repetitions(type_scheme.ty)
    /\ type_vars' = contained_type_vars(type_scheme.ty)
    /\ concrete' = is_concrete_type(type_scheme.ty)
    /\ type_pc' = "inspected"
    /\ UNCHANGED <<type_scheme, simplified, resimplified,
                   subst, substituted, converted,
                   pathVars, arrVars, condVars, textVars>>

\* type_scheme.clone().simplify_type_vars()
Simplify ==
    /\ type_pc = "build"
    /\ simplified' = simplify_type_vars(type_scheme)
    /\ type_pc' = "simplified"
    /\ UNCHANGED <<type_scheme, type_vars, concrete, resimplified,
                   occurrences, subst, substituted, converted,
                   pathVars, arrVars, condVars, textVars>>

\* simplified.clone().simplify_type_vars()
SimplifyAgain ==
    /\ type_pc = "simplified"
    /\ simplified.ok
    /\ resimplified' = simplify_type_vars(simplified.v)
    /\ type_pc' = "resimplified"
    /\ UNCHANGED <<type_scheme, type_vars, concrete, simplified,
                   occurrences, subst, substituted, converted,
                   pathVars, arrVars, condVars, textVars>>

\* type_scheme.ty.clone().substitute_type_vars(&subst)
Substitute ==
    /\ type_pc = "build"
    /\ \E s \in Substitutions :
        /\ subst' = s
        /\ substituted' = substitute_type_vars(type_scheme.ty, s)
    /\ type_pc' = "substituted"
    /\ UNCHANGED <<type_scheme, type_vars, concrete, simplified, resimplified,
                   occurrences, converted,
                   pathVars, arrVars, condVars, textVars>>

\* Type::<u64>::from(type_scheme.ty.clone())
Convert ==
    /\ type_pc = "build"
    /\ converted' = type_from(type_scheme.ty)
    /\ type_pc' = "converted"
    /\ UNCHANGED <<type_scheme, type_vars, concrete, simplified, resimplified,
                   occurrences, subst, substituted,
                   pathVars, arrVars, condVars, textVars>>

\* ---------------------------------------------------------- specifications

TypeInit == TypeStart /\ PathIdle /\ ArrIdle /\ CondIdle /\ TextIdle

TypeNext ==
    \/ WrapArray \/ WrapTuple \/ WrapFunction \/ BindVar
    \/ Inspect \/ Simplify \/ SimplifyAgain \/ Substitute \/ Convert

TypeSpec == TypeInit /\ [][TypeNext]_vars


TextInit == TextStart /\ PathIdle /\ ArrIdle /\ CondIdle /\ TypeIdle

TextNext == PushPart \/ ToDottedString \/ Display \/ TypeChar \/ FromStr

TextSpec == TextInit /\ [][TextNext]_vars


PathInit == PathStart /\ ArrIdle /\ CondIdle /\ TextIdle /\ TypeIdle

PathNext == Push \/ Pop \/ CommonPrefix \/ RelativeTo \/ FromAbsolute \/ FromParts \/ Join

PathSpec == PathInit /\ [][PathNext]_vars

ArrayInit == ArrStart /\ PathIdle /\ CondIdle /\ TextIdle /\ TypeIdle

ArrayNext == ConcatBlock \/ Solve \/ PadWithZeroes \/ PadWithLast

ArraySpec == ArrayInit /\ [][ArrayNext]_vars

Init == CondStart /\ PathIdle /\ ArrIdle /\ TextIdle /\ TypeIdle

Next == CondenseIdentities \/ ExtractIntermediates \/ ResolvePublics

Spec == Init /\ [][Next]_vars

\* ------------------------------------------------------------------ claims

\* C1: for all absolute paths A (self_path) and B (base), including the empty
\* root, A = B and one being a prefix of the other, B.join(A.relative_to(B))
\* completes without a panic and equals A.
C1_RelativeToJoinRoundTrip ==
    path_pc = "joined" => joined.ok /\ joined.parts = self_path

\* C1 witness: the round trip was taken through a relative path that both
\* ascends and descends, from a base that is no prefix of the path.
C1_Witness ==
    /\ path_pc = "joined"
    /\ \E i \in DOMAIN rel : rel[i] = Super
    /\ \E i \in DOMAIN rel : rel[i].kind = "Named"
    /\ joined = Ok(self_path)
    /\ self_path # base

\* C10: solve(degree) fails when the tree holds more than one RepeatedValue
\* block, whatever the degree and the constant length; otherwise it fails when
\* the total element count of the Value blocks exceeds degree; otherwise it
\* returns degree - constant_length, so constant_length + solve(degree) = degree.
C10_Solve ==
    arr_pc = "solved" =>
        LET blocks == Blocks(array_expr)
            repeated == {i \in DOMAIN blocks : blocks[i].tag = "RepeatedValue"}
            values == SelectSeq(blocks, LAMBDA b : b.tag = "Value")
        IN  IF Cardinality(repeated) > 1 THEN ~solved.ok
            ELSE IF SumLen(values) > solve_degree THEN ~solved.ok
            ELSE /\ solved.ok
                 /\ solved.value = solve_degree - SumLen(values)
                 /\ SumLen(values) + solved.value = solve_degree

\* C10 witness: [a, b] ++ repeated([0]) solved for degree 9 gives 7.
C10_Witness ==
    /\ arr_pc = "solved"
    /\ array_expr = Concat(Value(<<"a", "b">>), RepeatedValue(<<"0">>))
    /\ solve_degree = 9
    /\ solved = [ok |-> TRUE, value |-> 7]

\* ------------------------------------------------- condense: claim helpers

\* The pass has condensed the identities (step 1 returned).
IdentitiesCondensed == pc \in {"identities", "intermediates", "done"}

\* What the evaluator returns for the constraint expression of a polynomial
\* source identity.
ConstraintValue(identity) == evaluate(identity.left.selector.v, input.definitions)

\* The identity-values a polynomial source identity stands for, in order.
IdentityValues(identity) ==
    LET value == ConstraintValue(identity)
    IN  IF value.tag = "Array" THEN value.items ELSE <<value>>

\* Number of output identities of a source identity.
Expansion(identity) ==
    IF identity.kind = "Polynomial" THEN Len(IdentityValues(identity)) ELSE 1

\* Number of output identities of the source identities before the k-th.
RECURSIVE Offset(_)
Offset(k) == IF k <= 1 THEN 0 ELSE Offset(k - 1) + Expansion(input.identities[k - 1])

\* C2: a Polynomial-kind identity whose constraint expression evaluates to an
\* array of N identity-values (N >= 0) yields exactly N output polynomial
\* identities, the i-th being left_i - right_i of the i-th element, in order; a
\* single identity-value yields exactly one output identity left - right.
C2_PolynomialExpansion ==
    IdentitiesCondensed =>
        /\ Len(condensed_identities) = Offset(Len(input.identities) + 1)
        /\ \A k \in DOMAIN input.identities :
              input.identities[k].kind = "Polynomial" =>
                 LET values == IdentityValues(input.identities[k])
                 IN  \A i \in DOMAIN values :
                        LET out == condensed_identities[Offset(k) + i]
                        IN  /\ out.kind = "Polynomial"
                            /\ out.left.selector =
                                   Some(AlgSub(values[i].left, values[i].right))

\* C2 witness: the pass condensed an identity that evaluates to an array of two
\* identity-values and one that evaluates to a single identity-value.
C2_Witness ==
    /\ IdentitiesCondensed
    /\ \E k \in DOMAIN input.identities :
          /\ input.identities[k].kind = "Polynomial"
          /\ ConstraintValue(input.identities[k]).tag = "Array"
          /\ Expansion(input.identities[k]) = 2
    /\ \E k \in DOMAIN input.identities :
          /\ input.identities[k].kind = "Polynomial"
          /\ ConstraintValue(input.identities[k]).tag = "Identity"
    /\ Len(condensed_identities) = 3

\* C3: after condense, the ids of the identities of Analyzed.identities are
\* pairwise distinct and increase with the position in the list, also for the N
\* identities expanded from one source identity.
C3_FreshSequentialIds ==
    analyzed.some =>
        \A i, j \in DOMAIN analyzed.v.identities :
            i < j => analyzed.v.identities[i].id < analyzed.v.identities[j].id

\* The statements a source statement becomes.
Rewritten(s, emitted) ==
    IF s.tag = "Identity"
    THEN [j \in 1..Expansion(input.identities[s.index + 1]) |-> StmtIdentity(emitted + j - 1)]
    ELSE <<s>>

RECURSIVE ExpectedSourceOrder(_, _)
ExpectedSourceOrder(stmts, emitted) ==
    IF stmts = <<>> THEN <<>>
    ELSE LET block == Rewritten(Head(stmts), emitted)
         IN  block \o ExpectedSourceOrder(Tail(stmts),
                         IF Head(stmts).tag = "Identity" THEN emitted + Len(block) ELSE emitted)

\* C4: the output source_order is the input source_order with every
\* Identity(i) entry replaced in place by k consecutive Identity entries, k the
\* number of output identities of input identity i, the other entries kept in
\* their relative order; the Identity entries read left to right are
\* 0, 1, .., n-1 with n the length of Analyzed.identities.
C4_SourceOrderRewritten ==
    analyzed.some =>
        LET out == analyzed.v.source_order
            ids == SelectSeq(out, LAMBDA s : s.tag = "Identity")
        IN  /\ out = ExpectedSourceOrder(input.source_order, 0)
            /\ SelectSeq(out, LAMBDA s : s.tag # "Identity")
                 = SelectSeq(input.source_order, LAMBDA s : s.tag # "Identity")
            /\ Len(ids) = Len(analyzed.v.identities)
            /\ \A j \in DOMAIN ids : ids[j].index = j - 1

\* C4 witness: a returned pass whose source had an identity expanding to two
\* and one expanding to none, ahead of a definition.
C4_Witness ==
    /\ analyzed.some
    /\ \E k \in DOMAIN input.identities : Expansion(input.identities[k]) = 2
    /\ \E k \in DOMAIN input.identities : Expansion(input.identities[k]) = 0
    /\ \E i \in DOMAIN analyzed.v.source_order :
          /\ i > 2
          /\ analyzed.v.source_order[i].tag = "Definition"
          /\ analyzed.v.source_order[i - 1] = StmtIdentity(1)
          /\ analyzed.v.source_order[i - 2] = StmtIdentity(0)

\* A source identity the pass cannot condense: the evaluator fails on it, or
\* its value has the wrong shape.
IdentityFault(identity) ==
    IF identity.kind = "Polynomial"
    THEN LET value == ConstraintValue(identity)
         IN  ~(\/ value.tag = "Identity"
               \/ /\ value.tag = "Array"
                  /\ \A i \in DOMAIN value.items : value.items[i].tag = "Identity")
    ELSE \E side \in {identity.left, identity.right} :
            \/ /\ side.selector.some
               /\ evaluate(side.selector.v, input.definitions).tag # "Expression"
            \/ \E i \in DOMAIN side.expressions :
                  evaluate(side.expressions[i], input.definitions).tag # "Expression"

\* The Intermediate symbols of the input definition table.
InputIntermediates ==
    {n \in DOMAIN input.definitions : input.definitions[n].symbol.kind = "Intermediate"}

\* The declared type the pass accepts for an intermediate column: no type
\* variables, and an array of expr (of any declared length) for an array
\* symbol, expr for a scalar one.
DeclaredTypeAccepted(entry) ==
    /\ entry.definition.tag = "Expression"
    /\ entry.definition.type_scheme.some
    /\ entry.definition.type_scheme.v.vars = <<>>
    /\ LET ty == entry.definition.type_scheme.v.ty
       IN  IF entry.symbol.length.some
           THEN ty.t = "Array" /\ ty.base.t = "Expr"
           ELSE ty.t = "Expr"

\* The body of an intermediate column evaluates to what its symbol declares.
BodyAccepted(entry) ==
    LET value == evaluate(entry.definition.e, input.definitions)
    IN  IF entry.symbol.length.some
        THEN /\ value.tag = "Array"
             /\ Len(value.items) = entry.symbol.length.v
             /\ \A i \in DOMAIN value.items : value.items[i].tag = "Expression"
        ELSE value.tag = "Expression"

IntermediateFault(entry) == ~(DeclaredTypeAccepted(entry) /\ BodyAccepted(entry))

\* A public declaration whose symbol the pruned definition table lacks.
PublicFault(decl) ==
    decl.polynomial.name \notin (DOMAIN input.definitions \ InputIntermediates)

FaultInIdentities == \E k \in DOMAIN input.identities : IdentityFault(input.identities[k])

FaultInIntermediates == \E n \in InputIntermediates : IntermediateFault(input.definitions[n])

FaultInPublics ==
    \E p \in DOMAIN input.public_declarations : PublicFault(input.public_declarations[p])

\* C5: condense is fail-fast with no partial output: it returns one complete
\* Analyzed or aborts; whenever a step fails (evaluator error, wrong result
\* shape, intermediate type or length mismatch, undefined public symbol) no
\* Analyzed is returned and no later step runs after the first failure, the
\* steps running in the order identities, intermediate columns, publics.
C5_FailFast ==
    /\ analyzed.some <=> pc = "done"
    /\ (FaultInIdentities \/ FaultInIntermediates \/ FaultInPublics) => ~analyzed.some
    /\ pc = "done" =>
          /\ steps = <<"identities", "intermediates", "publics">>
          /\ DOMAIN analyzed.v = {"degree", "definitions", "public_declarations",
                                  "intermediate_columns", "identities", "source_order"}
    /\ pc = "aborted" =>
          /\ IF FaultInIdentities THEN steps = <<"identities">>
             ELSE IF FaultInIntermediates THEN steps = <<"identities", "intermediates">>
             ELSE FaultInPublics /\ steps = <<"identities", "intermediates", "publics">>
          /\ Len(steps) = 1 =>
                intermediate_columns = <<>> /\ definitions = input.definitions
          /\ Len(steps) <= 2 => public_declarations = input.public_declarations
    /\ pc \in {"start", "identities", "intermediates", "done", "aborted"}

\* C5 witness: the pass condensed identities, then aborted on an intermediate
\* column, without a result and without resolving a declared public.
C5_Witness ==
    /\ pc = "aborted"
    /\ steps = <<"identities", "intermediates">>
    /\ Len(condensed_identities) > 0
    /\ public_declarations # <<>>
    /\ ~analyzed.some

\* C6: after a successful condense no Intermediate symbol remains in
\* Analyzed.definitions, the keys of intermediate_columns are exactly the input
\* symbols of kind Intermediate, and the key sets of definitions and
\* intermediate_columns are disjoint and together the key set of the input table.
C6_IntermediatesMoved ==
    analyzed.some =>
        LET defs == analyzed.v.definitions
            columns == analyzed.v.intermediate_columns
        IN  /\ \A n \in DOMAIN defs : defs[n].symbol.kind # "Intermediate"
            /\ DOMAIN columns = InputIntermediates
            /\ DOMAIN defs \cap DOMAIN columns = {}
            /\ DOMAIN defs \cup DOMAIN columns = DOMAIN input.definitions

\* C6 witness: a returned pass over a table with two intermediate columns and
\* a committed one.
C6_Witness ==
    /\ analyzed.some
    /\ DOMAIN analyzed.v.intermediate_columns = {"w", "m"}
    /\ DOMAIN analyzed.v.definitions = {"x"}

\* C7 as stated: condense returns only if every Intermediate symbol's declared
\* type scheme has no type variables and is exactly expr[] (no length) for an
\* array symbol, exactly expr for a scalar one.
C7_ExactlyExprArray ==
    analyzed.some =>
        \A n \in InputIntermediates :
            LET entry == input.definitions[n]
            IN  /\ entry.definition.tag = "Expression"
                /\ entry.definition.type_scheme =
                      Some(TypeSchemeFrom(IF entry.symbol.length.some
                                          THEN TArray(TExpr, None)
                                          ELSE TExpr))

\* C7 amended: condense returns only if every Intermediate symbol's declared
\* type scheme has no type variables and is an array with base expr, with or
\* without a declared length, for an array symbol, exactly expr for a scalar
\* one; a different base type, a bound type variable or an absent type scheme
\* aborts the pass.
C7_DeclaredTypeChecked ==
    /\ analyzed.some =>
          \A n \in InputIntermediates : DeclaredTypeAccepted(input.definitions[n])
    /\ (\E n \in InputIntermediates : ~DeclaredTypeAccepted(input.definitions[n]))
          => pc # "intermediates"

\* C7 witness: a returned pass whose array intermediate column m declares its
\* type with an explicit length.
C7_Witness ==
    /\ analyzed.some
    /\ "m" \in InputIntermediates
    /\ input.definitions["m"].symbol.length.some
    /\ input.definitions["m"].definition.type_scheme.v.ty.length.some

\* C8: an Intermediate symbol with declared length L passes only if its body
\* evaluates to an array of exactly L algebraic-expression values, which
\* intermediate_columns then holds in order; a scalar one only if its body
\* evaluates to a single algebraic expression, stored as a one-element sequence.
C8_IntermediateValues ==
    analyzed.some =>
        \A n \in InputIntermediates :
            LET entry == input.definitions[n]
                value == evaluate(entry.definition.e, input.definitions)
                column == analyzed.v.intermediate_columns[n]
            IN  /\ column[1] = entry.symbol
                /\ IF entry.symbol.length.some
                   THEN /\ value.tag = "Array"
                        /\ Len(value.items) = entry.symbol.length.v
                        /\ Len(column[2]) = entry.symbol.length.v
                        /\ \A i \in DOMAIN value.items :
                              value.items[i] = VExpression(column[2][i])
                   ELSE value = VExpression(column[2][1]) /\ Len(column[2]) = 1

\* C8 witness: a returned pass with an array intermediate column of two
\* elements.
C8_Witness ==
    /\ analyzed.some
    /\ "m" \in DOMAIN analyzed.v.intermediate_columns
    /\ input.definitions["m"].symbol.length = Some(2)
    /\ analyzed.v.intermediate_columns["m"][2]
          = <<AlgReference("x", 0), AlgReference("w", 1)>>

\* C9: after a successful condense every public declaration's polynomial
\* reference carries the column id of the symbol of that name in the
\* definition table; when no such symbol exists, condense aborts and leaves
\* no poly_id unset.
C9_PublicsResolved ==
    analyzed.some =>
        /\ DOMAIN analyzed.v.public_declarations = DOMAIN input.public_declarations
        /\ \A p \in DOMAIN input.public_declarations :
              LET n == input.public_declarations[p].polynomial.name
                  polynomial == analyzed.v.public_declarations[p].polynomial
              IN  /\ n \in DOMAIN input.definitions
                  /\ polynomial.name = n
                  /\ polynomial.poly_id.some
                  /\ polynomial.poly_id.v.id = input.definitions[n].symbol.id

\* C9 witness: a returned pass with two public declarations, resolved to the
\* columns 0 and 1.
C9_Witness ==
    /\ analyzed.some
    /\ DOMAIN analyzed.v.public_declarations = {"P", "Q"}
    /\ analyzed.v.public_declarations["P"].polynomial.poly_id.v.id = 0
    /\ analyzed.v.public_declarations["Q"].polynomial.poly_id.v.id = 1

\* A path q is a prefix of a path p.
IsPrefix(q, p) == Len(q) <= Len(p) /\ SubSeq(p, 1, Len(q)) = q

\* C11: for all absolute paths A (self_path) and B (base), A.common_prefix(B)
\* is the longest sequence of components that is a prefix of both; it is
\* symmetric in A and B, common_prefix(A, A) = A, and it is the empty root
\* path when A and B differ in their first component.
C11_CommonPrefix ==
    path_pc = "prefixed" =>
        /\ IsPrefix(prefix, self_path) /\ IsPrefix(prefix, base)
        /\ \A q \in {SubSeq(self_path, 1, n) : n \in 0..Len(self_path)} :
                IsPrefix(q, base) => Len(q) <= Len(prefix)
        /\ prefix = common_prefix(base, self_path)
        /\ common_prefix(self_path, self_path) = self_path
        /\ common_prefix(base, base) = base
        /\ (self_path # <<>> /\ base # <<>> /\ self_path[1] # base[1]) => prefix = <<>>

\* C11 witness: the common prefix of two paths that agree, then differ, then
\* agree again was taken.
C11_Witness ==
    /\ path_pc = "prefixed"
    /\ Len(self_path) = 3 /\ Len(base) = 3
    /\ self_path[1] = base[1] /\ self_path[2] # base[2] /\ self_path[3] = base[3]
    /\ prefix = <<self_path[1]>>

\* The result the loop of join must have after the first n parts of `parts`:
\* the result after n - 1 parts, changed by part n alone.
RECURSIVE JoinedAfter(_, _, _)
JoinedAfter(b, parts, n) ==
    IF n = 0 THEN Ok(b)
    ELSE LET before == JoinedAfter(b, parts, n - 1)
             part == parts[n]
         IN  IF ~before.ok THEN Panic
             ELSE IF part = Super
                  THEN IF before.parts = <<>> THEN Panic
                       ELSE Ok([i \in 1..(Len(before.parts) - 1) |-> before.parts[i]])
                  ELSE IF part = Named(<<>>) THEN Ok(<<>>)
                       ELSE Ok(before.parts \o <<part.name>>)

\* C18: join applies the parts of the relative path strictly in order: Super
\* removes the last component and fails if the path is at root at that moment,
\* Named("") resets the path to the empty root, a non-empty Named(name)
\* appends name; consequently base.join(SymbolPath::from(A)) = A for every
\* base and every absolute path A.
C18_JoinInOrder ==
    /\ path_pc = "joined_parts" => joined = JoinedAfter(base, rel, Len(rel))
    /\ path_pc = "joined_absolute" => joined = Ok(self_path)

\* C18 witness: a join from a non-root base that appended a name, was reset
\* to the root by an empty name and then failed on `super`.
C18_Witness ==
    /\ path_pc = "joined_parts"
    /\ base # <<>>
    /\ rel = <<Named(<<"a">>), Named(<<>>), Super>>
    /\ joined = Panic

\* C12: for every SymbolPath p of at most two parts (the empty path and paths
\* with Super included), from_str(p.to_dotted_string()) yields p; and for
\* every SymbolPath p of any length, from_str of p's Display output yields p.
C12_PrintParseRoundTrip ==
    /\ (text_pc = "parsed_dotted" /\ Len(symbol_path) <= 2) => parsed = Ok(symbol_path)
    /\ text_pc = "parsed_displayed" => parsed = Ok(symbol_path)

\* The text a part was parsed from.
SegmentOf(part) == IF part = Super THEN <<"super">> ELSE part.name

\* The pattern occurs somewhere in s.
Contains(s, pattern) ==
    \E i \in 1..(Len(s) - Len(pattern) + 1) : SubSeq(s, i, i + Len(pattern) - 1) = pattern

\* The segments, with the separator between each two of them.
RECURSIVE Joined(_, _)
Joined(segments, separator) ==
    IF Len(segments) = 1 THEN segments[1]
    ELSE Joined(SubSeq(segments, 1, Len(segments) - 1), separator)
         \o separator \o segments[Len(segments)]

\* C19: from_str returns an error for every string that contains both a `.`
\* and a `::`, and otherwise succeeds, splitting on `::` if one is present and
\* on `.` if not, mapping each segment equal to `super` to Super and every
\* other segment to Named(segment), in order.
C19_FromStr ==
    text_pc \in {"parsed_typed", "parsed_dotted", "parsed_displayed"} =>
        LET mixed == Contains(text, Dot) /\ Contains(text, DoubleColon)
            separator == IF Contains(text, DoubleColon) THEN DoubleColon ELSE Dot
        IN  /\ parsed.ok <=> ~mixed
            /\ parsed.ok =>
                /\ Len(parsed.parts) >= 1
                /\ Joined([i \in DOMAIN parsed.parts |-> SegmentOf(parsed.parts[i])],
                          separator) = text
                /\ \A i \in DOMAIN parsed.parts :
                    /\ ~Contains(SegmentOf(parsed.parts[i]), separator)
                    /\ parsed.parts[i] # Named(<<"super">>)

\* C19 witness: a typed string with `::` and no `.` was split at its leftmost
\* `::` into a `super` and a name.
C19_Witness ==
    /\ text_pc = "parsed_typed"
    /\ text = <<"super", ":", ":", ":">>
    /\ parsed = Ok(<<Super, Named(<<":">>)>>)

\* C13: simplify_type_vars is idempotent: for every type scheme (zero, one
\* or several bound variables, in any declared order, names T and Ti
\* included), simplifying the simplified scheme changes nothing.
C13_SimplifyIdempotent ==
    type_pc = "resimplified" => resimplified = simplified

\* C13 witness: a scheme whose variables are called T2, T1 in this order, with
\* both in the type, was simplified twice.
C13_Witness ==
    /\ type_pc = "resimplified"
    /\ Len(type_scheme.vars) = 2
    /\ type_scheme.vars[1][1] = <<"T", "2">>
    /\ type_scheme.vars[2][1] = <<"T", "1">>
    /\ contained_type_vars(type_scheme.ty) = <<<<"T", "2">>, <<"T", "1">>>>
    /\ simplified.v # type_scheme
    /\ resimplified = simplified

\* The names of the bound variables of a scheme.
BoundNames(s) == {s.vars[i][1] : i \in DOMAIN s.vars}

\* The position at which a scheme declares the bound variable v.
DeclaredAt(s, v) == CHOOSE i \in DOMAIN s.vars : s.vars[i][1] = v

\* The bound variables of a scheme in the order of their first occurrence in
\* its type.
OccurringBound(s) ==
    LET IsBound(v) == v \in BoundNames(s)
    IN  SelectSeq(contained_type_vars(s.ty), IsBound)

\* The type of s with every occurrence of a bound variable replaced by the
\* name the variable has in r.
RenamedType(s, r) ==
    substitute_type_vars(s.ty, [v \in BoundNames(s) |->
                                  TTypeVar(r.vars[DeclaredAt(s, v)][1])])

\* C14: simplify_type_vars returns the scheme unchanged when it has no
\* bound variable, renames the single bound variable to T when there is one,
\* and otherwise renames the bound variables to T1..Tn numbered in the order
\* in which they first occur in the type; every occurrence of a bound
\* variable in the type is replaced by its new name.
C14_FirstOccurrenceOrder ==
    type_pc = "simplified" =>
        LET s == type_scheme
            r == simplified.v
            occurring == OccurringBound(s)
        IN  /\ simplified.ok
            /\ Len(s.vars) = 0 => r = s
            /\ Len(s.vars) = 1 => r.vars[1][1] = <<"T">>
            /\ Len(s.vars) >= 2 =>
                    \A k \in DOMAIN occurring :
                        r.vars[DeclaredAt(s, occurring[k])][1] = <<"T">> \o decimal(k)
            /\ r.ty = RenamedType(s, r)

\* C14, amended: as above, but the n >= 2 bound variables are numbered
\* T1..Tn in the order in which `vars` declares them.
C14_DeclaredOrder ==
    type_pc = "simplified" =>
        LET s == type_scheme
            r == simplified.v
        IN  /\ simplified.ok
            /\ Len(s.vars) = 0 => r = s
            /\ Len(s.vars) = 1 => r.vars[1][1] = <<"T">>
            /\ Len(s.vars) >= 2 =>
                    \A i \in DOMAIN s.vars : r.vars[i][1] = <<"T">> \o decimal(i)
            /\ r.ty = RenamedType(s, r)

\* C14 witness: a scheme of two bound variables was simplified whose type
\* mentions the variable declared second before the one declared first.
C14_Witness ==
    /\ type_pc = "simplified"
    /\ Len(type_scheme.vars) = 2
    /\ OccurringBound(type_scheme) = <<type_scheme.vars[2][1], type_scheme.vars[1][1]>>
    /\ simplified.ok
    /\ simplified.v.vars[1][1] = <<"T", "1">>
    /\ simplified.v.vars[2][1] = <<"T", "2">>

\* C15: simplify_type_vars preserves each bound variable's set of trait
\* bounds under the renaming: the result has as many bound variables, the
\* variable declared at a position keeps its bound set under its new name,
\* distinct variables get distinct new names, and the renaming is applied at
\* once: each occurrence of a variable in the type becomes the new name of that
\* variable (variables called T2, T1 are not collapsed into one).
C15_BoundsPreserved ==
    type_pc = "simplified" =>
        LET s == type_scheme
            r == simplified.v
            before == contained_type_vars_with_repetitions(s.ty)
            after == contained_type_vars_with_repetitions(r.ty)
        IN  /\ simplified.ok
            /\ Len(r.vars) = Len(s.vars)
            /\ \A i \in DOMAIN s.vars : r.vars[i][2] = s.vars[i][2]
            /\ \A i, j \in DOMAIN s.vars : i # j => r.vars[i][1] # r.vars[j][1]
            /\ Len(after) = Len(before)
            /\ \A k \in DOMAIN before :
                    after[k] = IF before[k] \in BoundNames(s)
                               THEN r.vars[DeclaredAt(s, before[k])][1]
                               ELSE before[k]

\* C15 witness: a scheme <T2: Add, T1> with both variables in its type was
\* simplified to <T1: Add, T2>.
C15_Witness ==
    /\ type_pc = "simplified"
    /\ type_scheme.vars = <<<< <<"T", "2">>, {"Add"} >>, << <<"T", "1">>, {} >>>>
    /\ BoundNames(type_scheme) \subseteq
            {contained_type_vars(type_scheme.ty)[k] :
                k \in DOMAIN contained_type_vars(type_scheme.ty)}
    /\ simplified.ok
    /\ simplified.v.vars = <<<< <<"T", "1">>, {"Add"} >>, << <<"T", "2">>, {} >>>>

\* Every node of a Type tree.
RECURSIVE Subtypes(_)
Subtypes(ty) ==
    {ty} \cup
    CASE ty.t = "Array" -> Subtypes(ty.base)
      [] ty.t = "Tuple" -> UNION {Subtypes(ty.items[i]) : i \in DOMAIN ty.items}
      [] ty.t = "Function" ->
            UNION {Subtypes(ty.params[i]) : i \in DOMAIN ty.params}
            \cup Subtypes(ty.value)
      [] OTHER -> {}

\* C16: for every type t, t.is_concrete_type() is true if and only if
\* t.contained_type_vars() yields nothing, which is the case exactly when no
\* TypeVar node occurs anywhere in t (top level, array base, tuple item,
\* function parameter or return type).
C16_ConcreteIffNoTypeVar ==
    type_pc = "inspected" =>
        /\ concrete <=> (type_vars = <<>>)
        /\ concrete <=> ~(\E node \in Subtypes(type_scheme.ty) : node.t = "TypeVar")

\* C16 witness: a function type whose only type variable is the base of the
\* array it returns was found not concrete.
C16_Witness ==
    /\ type_pc = "inspected"
    /\ type_scheme.ty.t = "Function"
    /\ type_scheme.ty.params = <<TInt>>
    /\ type_scheme.ty.value.t = "Array"
    /\ type_scheme.ty.value.base.t = "TypeVar"
    /\ ~concrete
    /\ Len(type_vars) = 1

\* An array expression without a RepeatedValue node.
FullyLiteral(a) == \A i \in DOMAIN Blocks(a) : Blocks(a)[i].tag = "Value"

\* C17: pad_with_zeroes and pad_with_last are no-ops on an array expression
\* without elements (the result still has no RepeatedValue node and no
\* element; a pad_with_last that returns None added nothing); applied to a
\* fully literal array with elements they append exactly one RepeatedValue
\* block of one element to the right.
C17_PadNoOpOnEmpty ==
    arr_pc \in {"padded_zeroes", "padded_last"} =>
        /\ (FullyLiteral(array_expr) /\ SumLen(Blocks(array_expr)) = 0) =>
                \/ padded = None
                \/ FullyLiteral(padded.v) /\ SumLen(Blocks(padded.v)) = 0
        /\ (FullyLiteral(array_expr) /\ SumLen(Blocks(array_expr)) > 0) =>
                /\ padded # None
                /\ padded.v.tag = "Concat"
                /\ padded.v.left = array_expr
                /\ padded.v.right.tag = "RepeatedValue"
                /\ Len(padded.v.right.v) = 1

\* The scalar Intermediate symbols of the input definition table.
ScalarIntermediates ==
    {n \in InputIntermediates : ~input.definitions[n].symbol.length.some}

\* C20: identities and bodies of intermediate columns are evaluated against
\* the full input symbol table, the Intermediate symbols that leave the output
\* definitions included: an identity that references an intermediate column
\* condenses and keeps the reference to that column, with nothing inlined (for
\* `col m = x; m = m;` the output holds the identity m = m, and m is no output
\* definition); so does the body of an intermediate column that references
\* another one.
C20_IntermediateReferencesKept ==
    /\ \A k \in DOMAIN input.identities :
          (/\ input.identities[k].kind = "Polynomial"
           /\ input.identities[k].left.selector = Some(EEq(ERef("m"), ERef("m")))
           /\ "m" \in ScalarIntermediates) =>
              /\ IdentitiesCondensed =>
                    /\ condensed_identities[Offset(k) + 1].kind = "Polynomial"
                    /\ condensed_identities[Offset(k) + 1].left.selector =
                          Some(AlgSub(AlgReference("m", 0), AlgReference("m", 0)))
              /\ (pc = "aborted" /\ steps = <<"identities">>) =>
                    \E j \in DOMAIN input.identities \ {k} :
                        IdentityFault(input.identities[j])
    /\ analyzed.some =>
          /\ DOMAIN analyzed.v.definitions = DOMAIN input.definitions \ InputIntermediates
          /\ \A n \in ScalarIntermediates, b \in ScalarIntermediates :
                input.definitions[n].definition.e = ERef(b) =>
                    analyzed.v.intermediate_columns[n][2] = <<AlgReference(b, 0)>>

\* C20 witness: `col w = x; col m = w; m = m;` was condensed: x is the one
\* output definition, m refers to w, and the identity is m = m.
C20_Witness ==
    /\ analyzed.some
    /\ DOMAIN analyzed.v.definitions = {"x"}
    /\ DOMAIN analyzed.v.intermediate_columns = {"w", "m"}
    /\ analyzed.v.intermediate_columns["w"][2] = <<AlgReference("x", 0)>>
    /\ analyzed.v.intermediate_columns["m"][2] = <<AlgReference("w", 0)>>
    /\ Len(analyzed.v.identities) = 1
    /\ analyzed.v.identities[1].left.selector =
          Some(AlgSub(AlgReference("m", 0), AlgReference("m", 0)))

\* The number of leading positions at which two paths agree.
AgreeingComponents(p, b) ==
    CHOOSE k \in 0..Len(p) :
        /\ k <= Len(b)
        /\ \A i \in 1..k : p[i] = b[i]
        /\ k = Len(p) \/ k = Len(b) \/ p[k + 1] # b[k + 1]

\* C27: for all absolute paths self and base, with L the length of their
\* common prefix, self.relative_to(base) is exactly base.len() - L Super
\* parts followed by the components of self from index L on as Named parts, in
\* order; it is the empty path when self = base and has no Super part when
\* base is a prefix of self.
C27_RelativeToShape ==
    path_pc = "relative" =>
        LET L == AgreeingComponents(self_path, base)
            supers == Len(base) - L
        IN  /\ Len(rel) = supers + (Len(self_path) - L)
            /\ \A i \in 1..supers : rel[i] = Super
            /\ \A i \in 1..(Len(self_path) - L) :
                    rel[supers + i] = Named(self_path[L + i])
            /\ self_path = base => rel = <<>>
            /\ IsPrefix(base, self_path) => \A i \in DOMAIN rel : rel[i] # Super

\* C27 witness: relative_to between two paths of three components that share
\* the first one gave two `super` and two names.
C27_Witness ==
    /\ path_pc = "relative"
    /\ Len(self_path) = 3 /\ Len(base) = 3
    /\ self_path[1] = base[1] /\ self_path[2] # base[2]
    /\ rel = <<Super, Super, Named(self_path[2]), Named(self_path[3])>>

\* The elements of the blocks of a tree, left to right.
RECURSIVE Elements(_)
Elements(blocks) ==
    IF blocks = <<>> THEN <<>> ELSE Head(blocks).v \o Elements(Tail(blocks))

\* C29: pad_with_last applied to an array expression with at least one
\* element appends one repeated block holding the last element of the array
\* in left-to-right order, also when the rightmost block of a concatenation is
\* empty (for Concat(Value([a]), Value([])) the block is repeated([a])).
C29_PadWithLastElement ==
    arr_pc = "padded_last" =>
        LET elements == Elements(Blocks(array_expr))
        IN  elements # <<>> =>
                padded = Some(Concat(array_expr,
                                     RepeatedValue(<<elements[Len(elements)]>>)))

\* The types directly below a node, left to right; the length of an array is
\* not among them.
Children(ty) ==
    CASE ty.t = "Array" -> <<ty.base>>
      [] ty.t = "Tuple" -> ty.items
      [] ty.t = "Function" -> Append(ty.params, ty.value)
      [] OTHER -> <<>>

\* The names met by a pre-order walk that starts with the trees of `pending`.
RECURSIVE PreOrderNames(_)
PreOrderNames(pending) ==
    IF pending = <<>> THEN <<>>
    ELSE LET node == Head(pending)
         IN  IF node.t = "TypeVar"
             THEN <<node.name>> \o PreOrderNames(Tail(pending))
             ELSE PreOrderNames(Children(node) \o Tail(pending))

\* The position of the first occurrence of a name in a sequence.
FirstIndex(names, n) ==
    CHOOSE i \in DOMAIN names :
        names[i] = n /\ \A j \in 1..(i - 1) : names[j] # n

\* C26: contained_type_vars_with_repetitions lists the type-variable
\* occurrences of a type in pre-order, duplicates included (the base of an
\* array but not its length, the items of a tuple left to right, the
\* parameters of a function left to right and then its return type), and
\* contained_type_vars is that sequence with every name kept only at its
\* first occurrence.
C26_OccurrencesInPreOrder ==
    type_pc = "inspected" =>
        /\ occurrences = PreOrderNames(<<type_scheme.ty>>)
        /\ {type_vars[i] : i \in DOMAIN type_vars}
                = {occurrences[i] : i \in DOMAIN occurrences}
        /\ \A i, j \in DOMAIN type_vars :
                i < j => FirstIndex(occurrences, type_vars[i])
                            < FirstIndex(occurrences, type_vars[j])

C26_Witness ==
    /\ type_pc = "inspected"
    /\ type_scheme.ty = TFunction(<<TArray(TTypeVar(<<"T", "1">>), Some(ERef("N")))>>,
                                  TTypeVar(<<"T">>))
    /\ occurrences = <<<<"T", "1">>, <<"T">>>>
    /\ type_vars = occurrences

\* `result` is `ty` with the type variables in the domain of `s` replaced by
\* their images, once, and everything else as it was.
RECURSIVE SubstitutedOnce(_, _, _)
SubstitutedOnce(ty, result, s) ==
    CASE ty.t = "TypeVar" ->
            result = IF ty.name \in DOMAIN s THEN s[ty.name] ELSE ty
      [] ty.t = "Array" ->
            /\ result.t = "Array"
            /\ result.length = ty.length
            /\ SubstitutedOnce(ty.base, result.base, s)
      [] ty.t = "Tuple" ->
            /\ result.t = "Tuple"
            /\ Len(result.items) = Len(ty.items)
            /\ \A i \in DOMAIN ty.items :
                    SubstitutedOnce(ty.items[i], result.items[i], s)
      [] ty.t = "Function" ->
            /\ result.t = "Function"
            /\ Len(result.params) = Len(ty.params)
            /\ \A i \in DOMAIN ty.params :
                    SubstitutedOnce(ty.params[i], result.params[i], s)
            /\ SubstitutedOnce(ty.value, result.value, s)
      [] OTHER -> result = ty

\* C25: substitute_type_vars(subst) is a structural one-pass substitution:
\* every TypeVar(n) of the original type with n in subst is replaced by
\* subst[n], every other TypeVar and every array length is left unchanged,
\* and the substituted-in types are not rescanned.
C25_OnePassSubstitution ==
    type_pc = "substituted" => SubstitutedOnce(type_scheme.ty, substituted, subst)

C25_Witness ==
    /\ type_pc = "substituted"
    /\ DOMAIN subst = {<<"T">>, <<"T", "1">>}
    /\ subst[<<"T">>] = TTypeVar(<<"T", "1">>) /\ subst[<<"T", "1">>] = TInt
    /\ type_scheme.ty = TTuple(<<TTypeVar(<<"T">>), TTypeVar(<<"T", "1">>)>>)
    /\ substituted = TTuple(<<TTypeVar(<<"T", "1">>), TInt>>)

\* An array length that is an untyped numeric literal fitting in 64 bits.
ResolvedLength(l) == l.e = "Number" /\ l.ty = None /\ Len(l.value) <= 1

\* `result` has the variant, names and order of `ty` at every node, an absent
\* array length where `ty` has none, and the number of the literal elsewhere.
RECURSIVE SameStructure(_, _)
SameStructure(ty, result) ==
    CASE ty.t = "Array" ->
            /\ result.t = "Array"
            /\ result.length.some = ty.length.some
            /\ ty.length.some =>
                    result.length.v = IF ty.length.v.value = <<>> THEN 0
                                      ELSE ty.length.v.value[1]
            /\ SameStructure(ty.base, result.base)
      [] ty.t = "Tuple" ->
            /\ result.t = "Tuple"
            /\ Len(result.items) = Len(ty.items)
            /\ \A i \in DOMAIN ty.items : SameStructure(ty.items[i], result.items[i])
      [] ty.t = "Function" ->
            /\ result.t = "Function"
            /\ Len(result.params) = Len(ty.params)
            /\ \A i \in DOMAIN ty.params :
                    SameStructure(ty.params[i], result.params[i])
            /\ SameStructure(ty.value, result.value)
      [] OTHER -> result = ty

\* C24: the conversion of Type<Expression> to Type<u64> succeeds only if
\* every present array length, at any depth, is an untyped numeric literal
\* that fits in 64 bits, and then keeps the structure of the type and yields
\* that number as the length; any other length makes the conversion fail.
C24_ConversionResolvesLengths ==
    type_pc = "converted" =>
        /\ converted.ok <=>
                \A s \in Subtypes(type_scheme.ty) :
                    (s.t = "Array" /\ s.length.some) => ResolvedLength(s.length.v)
        /\ converted.ok => SameStructure(type_scheme.ty, converted.v)

C24_Witness ==
    /\ type_pc = "converted"
    /\ type_scheme.ty = TTuple(<<TArray(TTypeVar(<<"T">>), Some(ENumberOf(<<2>>, None))),
                                 TInt>>)
    /\ converted = Returned(TTuple(<<TArray(TTypeVar(<<"T">>), Some(2)), TInt>>))

\* A polynomial source identity whose constraint expression evaluates, to
\* something that is neither an identity-value nor an array of them.
ShapeFault(identity) ==
    /\ identity.kind = "Polynomial"
    /\ ConstraintValue(identity).tag # "Err"
    /\ IdentityFault(identity)

\* The messages of the panics on a wrong result shape of a constraint.
TypeMismatch ==
    { Some("Expected constraint, but got"),
      Some("Expected constraint or array of constraints, but got") }

\* C23: condensing a Polynomial-kind identity fails with a type-mismatch
\* failure whenever the evaluated result is neither a single identity-value
\* nor an array all of whose elements are identity-values (a plain algebraic
\* expression, an array with one non-identity element), and the failing
\* identity produces no output identities for its other elements.
C23_PolynomialTypeMismatch ==
    pc # "start" =>
        \A k \in DOMAIN input.identities :
            ShapeFault(input.identities[k]) =>
                /\ pc = "aborted" /\ steps = <<"identities">>
                /\ condensed_identities = <<>> /\ ~analyzed.some
                /\ (\A j \in 1..(k - 1) : ~IdentityFault(input.identities[j]))
                      => failure \in TypeMismatch

\* C23 witness: the pass aborted on the identity [x = x, x] that follows an
\* identity it can condense.
C23_Witness ==
    /\ pc = "aborted"
    /\ Len(input.identities) = 2
    /\ ~IdentityFault(input.identities[1])
    /\ ConstraintValue(input.identities[2]).tag = "Array"
    /\ ConstraintValue(input.identities[2]).items[1].tag = "Identity"
    /\ ConstraintValue(input.identities[2]).items[2].tag = "Expression"
    /\ failure = Some("Expected constraint, but got")
    /\ condensed_identities = <<>>

\* The algebraic expression an expression condenses to.
Condensation(e) == evaluate(e, input.definitions).expr

\* `out` is the side `side` of a source identity, condensed: a selector if
\* and only if the side has one, and the expressions one by one, in order.
SideCondensed(side, out) ==
    /\ out.selector.some <=> side.selector.some
    /\ side.selector.some => out.selector.v = Condensation(side.selector.v)
    /\ Len(out.expressions) = Len(side.expressions)
    /\ \A i \in DOMAIN side.expressions :
            out.expressions[i] = Condensation(side.expressions[i])

\* C21: condensing a Lookup- or Permutation-kind identity yields exactly one
\* output identity of the same kind and source; on each side the output has a
\* selector iff the input has one, its expression list has the length of the
\* input list and its i-th element is the condensation of the i-th input
\* expression; if a selector or list element does not evaluate to a single
\* algebraic-expression value the pass aborts.
C21_SelectedExpressionsCondensed ==
    \A k \in DOMAIN input.identities :
        input.identities[k].kind \in {"Lookup", "Permutation"} =>
            /\ IdentitiesCondensed =>
                  /\ Len(condensed_identities) = Offset(Len(input.identities) + 1)
                  /\ LET out == condensed_identities[Offset(k) + 1]
                     IN  /\ out.kind = input.identities[k].kind
                         /\ out.source = input.identities[k].source
                         /\ SideCondensed(input.identities[k].left, out.left)
                         /\ SideCondensed(input.identities[k].right, out.right)
            /\ (pc # "start" /\ IdentityFault(input.identities[k])) =>
                  pc = "aborted" /\ ~analyzed.some

\* C21 witness: the pass condensed { x, m } is w { m, x } after another
\* identity.
C21_Witness ==
    /\ IdentitiesCondensed
    /\ Len(input.identities) = 2
    /\ input.identities[2].kind = "Permutation"
    /\ LET out == condensed_identities[Len(condensed_identities)]
       IN  /\ out.kind = "Permutation"
           /\ out.left = SelectedExpressions(None,
                             <<AlgReference("x", 0), AlgReference("m", 0)>>)
           /\ out.right = SelectedExpressions(Some(AlgReference("w", 0)),
                              <<AlgReference("m", 0), AlgReference("x", 0)>>)

C28_Frame ==
    analyzed.some =>
        /\ analyzed.v.degree = input.degree
        /\ \A n \in DOMAIN input.definitions \ InputIntermediates :
              /\ n \in DOMAIN analyzed.v.definitions
              /\ analyzed.v.definitions[n] = input.definitions[n]
        /\ DOMAIN analyzed.v.definitions \subseteq DOMAIN input.definitions
        /\ DOMAIN analyzed.v.public_declarations = DOMAIN input.public_declarations

\* C28 witness: a returned pass over a table with an intermediate column, two
\* public declarations and no degree.
C28_Witness ==
    /\ analyzed.some
    /\ input.degree = None /\ analyzed.v.degree = None
    /\ DOMAIN input.definitions = {"x", "w", "m"}
    /\ DOMAIN analyzed.v.definitions = {"x", "w"}
    /\ analyzed.v.definitions["w"].symbol = Symbol(1, "Committed", Some(2))
    /\ DOMAIN analyzed.v.public_declarations = {"P", "Q"}
    /\ Len(analyzed.v.identities) > 0

\* C30: the public declarations are resolved against the definition table
\* after the intermediate columns were removed from it: a declaration that
\* references an Intermediate column makes condense abort with a
\* symbol-not-found failure, although the symbol is in the input table.
C30_PublicOfIntermediate ==
    \A p \in DOMAIN input.public_declarations :
        LET n == input.public_declarations[p].polynomial.name
        IN  n \in InputIntermediates =>
                /\ pc # "done" /\ ~analyzed.some
                /\ steps = <<"identities", "intermediates", "publics">> =>
                      /\ pc = "aborted"
                      /\ failure = Some("Symbol not found.")
                      /\ n \in DOMAIN input.definitions
                      /\ n \notin DOMAIN definitions

\* C30 witness: the pass condensed identities and the intermediate column m,
\* then aborted on the public declaration of m.
C30_Witness ==
    /\ pc = "aborted"
    /\ steps = <<"identities", "intermediates", "publics">>
    /\ failure = Some("Symbol not found.")
    /\ input.public_declarations["P"].polynomial.name = "m"
    /\ "m" \in DOMAIN input.definitions /\ "m" \in DOMAIN intermediate_columns
    /\ Len(condensed_identities) > 0

====
